---- MODULE Spec2Model ----
(***************************************************************************)
(* A model of the WebDriver BiDi <-> CDP mapper.                           *)
(*                                                                         *)
(*   Part I   the BiDi transport of the mapper tab (src/bidiTab/bidiTab.ts)*)
(*            and the command processor behind it.  Specification:         *)
(*            TransportSpec.                                               *)
(*   Part II  the browsing-context processor                               *)
(*            (src/bidiMapper/domains/context/browsingContextProcessor.ts) *)
(*            driven by CDP events and BiDi commands.  Specification: Spec.*)
(***************************************************************************)
EXTENDS Integers, Sequences, FiniteSets, TLC

VARIABLES
  \* ---- Part I: WindowBidiTransport and the command processor
  onMessage,       \* WindowBidiTransport.#onMessage is set (a handler is registered)
  onBidiMessage,   \* window.onBidiMessage is set (the transport is open)
  messageStr,      \* the string handed to window.onBidiMessage in the latest turn
  handlerArg,      \* the object handed to #onMessage in the latest turn
  sent,            \* the strings handed to window.sendBidiResponse in the latest turn
  commands,        \* the commands being processed (their promises are pending)
  responded,       \* the command whose processing ended in the latest turn
  respondedAt,     \* its position among the commands in flight (0: none ended)
  \* ---- Part II: the browser
  browserTargets,  \* each target of the browser: new, created, attached or closed
  frameParent,     \* each frame's parent in the browser (Null: not yet attached)
  \* ---- Part II: BrowsingContextProcessor
  listeners,       \* the CDP clients on which #setEventListeners has run
  cdpTargets,      \* the CdpTarget objects created: targetId -> parentId
  contexts,        \* BrowsingContextStorage: context id -> browsing context
  calls,           \* the BiDi commands awaiting a CDP reply or a signal
  turn,            \* the latest turn: a command and its parameter, an event, a reply
  responses,       \* the results of the commands that ended in the latest turn
  closed,          \* the contexts for which browsingContext.close has succeeded
  \* ---- Part III: preload scripts
  installed,       \* browser: the scripts to evaluate on new document, per target
  cdpScriptIds,    \* browser: the number of script identifiers issued, per target
  preloadScripts,  \* PreloadScriptStorage: BiDi id -> BidiPreloadScript
  scriptCalls,     \* the script.add/removePreloadScript awaiting a CDP reply
  issuedScripts,   \* the BiDi preload script ids that have been given out
  \* ---- Part IV: realms and handles
  executionContexts,   \* browser: execution context -> frame, target, state
  objects,             \* browser: remote object id -> execution context, state
  realmMap,            \* RealmStorage.realmMap: realm id -> realm
  knownHandlesToRealm, \* RealmStorage.knownHandlesToRealm: handle -> realm id
  realmCalls,          \* the script commands awaiting a CDP reply
  releases,            \* the Runtime.releaseObject sent and not awaited
  \* ---- Part VII: input
  inputStates,     \* InputStateManager: top-level context -> InputState
  inputCalls,      \* the input commands awaiting their dispatcher
  dispatched,      \* the actions dispatched to the browser in the latest turn
  performed,       \* the actions performed under each InputState, in order
  firstUse,        \* the subtype each pointer source id was first used with
  \* ---- Part VIII: navigation
  documents,       \* browser: the loader id of the document of each page
  navigations,     \* the browsingContext.navigate awaiting a reply or an event
  navigated,       \* the results of the navigations that ended in the latest turn
  blocked,         \* the targets whose CdpTarget has not finished its start
  evaluations,     \* the script evaluations that await `unblocked`
  evaluated,       \* the results of those that ended in the latest turn
  \* ---- Part X: EventManager
  subscriptions,   \* the set of (event, context or null, channel)
  eventBuffer,     \* per context: the events stored for a late subscriber
  registered,      \* every event registered so far, in order
  emitted,         \* the outbound events of the latest turn, in order
  delivered,       \* the (event, subscription) pairs emitted so far
  sessionCommands, \* the number of session commands of the client so far
  \* ---- Part XII: frames that change their process
  migrations,      \* browser: how often the target of each frame was replaced
  oldSessions,     \* browser: the replaced sessions that are still open
  \* ---- Part XIII: frames that leave
  frameDetached,   \* the Page.frameDetached handled in the latest turn
  \* ---- Part XX: targets that are not browsing contexts
  unsupported      \* per such target attached: the commands of the handler

transportVars ==
  <<onMessage, onBidiMessage, messageStr, handlerArg, sent, commands, responded,
    respondedAt>>

contextVars ==
  <<browserTargets, frameParent, listeners, cdpTargets, contexts, calls, turn,
    responses, closed>>

scriptVars ==
  <<installed, cdpScriptIds, preloadScripts, scriptCalls, issuedScripts>>

realmVars ==
  <<executionContexts, objects, realmMap, knownHandlesToRealm, realmCalls,
    releases>>

inputVars == <<inputStates, inputCalls, dispatched, performed, firstUse>>

unblockVars == <<blocked, evaluations, evaluated>>

navVars == <<documents, navigations, navigated, unblockVars>>

eventVars ==
  <<subscriptions, eventBuffer, registered, emitted, delivered,
    sessionCommands>>

swapVars == <<migrations, oldSessions, frameDetached>>

vars ==
  <<transportVars, contextVars, scriptVars, realmVars, inputVars, navVars,
    eventVars, swapVars, unsupported>>

(***************************************************************************)
(* Bounds.                                                                 *)
(***************************************************************************)
\* The number of commands that may be in flight at once.
MaxInFlight == 2
\* The number of browsing-context commands that may be pending at once.
MaxCalls == 1

(***************************************************************************)
(* JavaScript values, as JSON.parse produces them.                         *)
(***************************************************************************)
JVal(k, s, n, d) == [kind |-> k, str |-> s, num |-> n, den |-> d]
Undefined == JVal("undefined", "", 0, 1)
JNull == JVal("null", "", 0, 1)
JArray == JVal("array", "", 0, 1)
JObject == JVal("plainobject", "", 0, 1)
JString(s) == JVal("string", s, 0, 1)
\* the number n/d, in lowest terms
JNumber(n, d) == JVal("number", "", n, d)

\* typeof value
TypeOf(value) ==
  CASE value.kind \in {"null", "array", "plainobject"} -> "object"
    [] OTHER -> value.kind

\* Array.isArray(value)
IsArray(value) == value.kind = "array"

\* Number.isInteger(value)
NumberIsInteger(value) == value.kind = "number" /\ value.den = 1

\* A parsed payload: a JavaScript value and, for an object, its members
\* (Undefined: the object has no such member).
NoMembers ==
  [id |-> Undefined, method |-> Undefined, params |-> Undefined,
   channel |-> Undefined]
Doc(k, m) == [kind |-> k, members |-> m]

IdValues ==
  {Undefined, JNumber(0, 1), JNumber(1, 1), JNumber(-1, 1), JNumber(3, 2),
   JString("7"), JNull, JObject}
MethodValues == {Undefined, JString("session.status")}
ParamsValues == {JObject, JNull, JArray}
ChannelValues == {Undefined, JString(""), JString("ch"), JNull}

Docs ==
  {Doc(k, NoMembers) : k \in {"null", "array", "number", "string"}}
  \cup
  {Doc("plainobject", [id |-> i, method |-> m, params |-> p, channel |-> c]) :
     i \in IdValues, m \in MethodValues, p \in ParamsValues,
     c \in ChannelValues}

\* The strings a client may send: text that is not JSON, or the text of a
\* JSON document.
NotJson == [wellFormed |-> FALSE, doc |-> Doc("undefined", NoMembers)]
MessageStrs == {NotJson} \cup {[wellFormed |-> TRUE, doc |-> d] : d \in Docs}
NoMessage == [wellFormed |-> FALSE, doc |-> Doc("none", NoMembers)]

\* JSON.parse(text): throws on text that is not JSON.
JsonParse(text) ==
  IF text.wellFormed
    THEN [threw |-> FALSE, value |-> text.doc]
    ELSE [threw |-> TRUE, value |-> Doc("undefined", NoMembers)]

\* `name in object`, for a parsed object
HasMember(object, name) == object.members[name] # Undefined

\* JSON.stringify(object): members whose value is undefined are left out.
JsonStringify(object) ==
  [k \in {n \in DOMAIN object : object[n] # Undefined} |-> object[k]]


(***************************************************************************)
(* Part I.  WindowBidiTransport.                                           *)
(***************************************************************************)
InvalidArgument == "invalid argument"
UnknownError == "unknown error"

\* A command as the transport hands it on; with every member Undefined, none.
Command(i, m, p, c) == [id |-> i, method |-> m, params |-> p, channel |-> c]
NoCommand == Command(Undefined, Undefined, Undefined, Undefined)

\* WindowBidiTransport.#getJsonType
getJsonType(value) ==
  IF value.kind = "null" THEN "null"
  ELSE IF IsArray(value) THEN "array"
  ELSE TypeOf(value)

Throw(text) == [threw |-> TRUE, message |-> text, value |-> NoCommand]
Return(v) == [threw |-> FALSE, message |-> "", value |-> v]

\* A mutant of invalidId: the sign of the id is not checked.
invalidId_NoSignCheck(id) ==
  getJsonType(id) # "number" \/ ~NumberIsInteger(id)

\* The test of the id in #parseBidiMessage: it is no unsigned integer.
invalidId(id) ==
  getJsonType(id) # "number" \/ ~NumberIsInteger(id) \/ id.num < 0

\* A mutant of returnedChannel: the channel is validated but not handed on.
returnedChannel_Dropped(channel) == Undefined

\* The channel #parseBidiMessage returns for a channel that passed its test:
\* an empty string channel is considered as no channel provided.
returnedChannel(channel) ==
  IF channel # Undefined /\ channel = JString("") THEN Undefined ELSE channel

\* WindowBidiTransport.#parseBidiMessage
parseBidiMessage(text) ==
  LET parsed == JsonParse(text)
      messageObject == parsed.value
      parsedType == getJsonType(messageObject)
      id == messageObject.members.id
      method == messageObject.members.method
      params == messageObject.members.params
      channel == messageObject.members.channel
      idType == getJsonType(id)
      methodType == getJsonType(method)
      paramsType == getJsonType(params)
      channelType == getJsonType(channel)
  IN  IF parsed.threw THEN Throw("Cannot parse data as JSON")
      ELSE IF parsedType # "object"
        THEN Throw("Expected JSON object but got " \o parsedType)
      ELSE IF invalidId(id)
        THEN Throw("Expected unsigned integer but got " \o idType)
      ELSE IF methodType # "string"
        THEN Throw("Expected string method but got " \o methodType)
      ELSE IF paramsType # "object"
        THEN Throw("Expected object params but got " \o paramsType)
      ELSE IF channel # Undefined /\ channelType # "string"
        THEN Throw("Expected string channel but got " \o channelType)
      ELSE Return(Command(id, method, params, returnedChannel(channel)))

\* A mutant of getErrorResponse: only an id that is a valid command id is
\* copied into the response.
getErrorResponse_ValidIdOnly(text, errorCode, errorMessage) ==
  LET parsed == JsonParse(text)
      id == parsed.value.members.id
  IN  [id |-> IF /\ ~parsed.threw
                 /\ getJsonType(parsed.value) = "object"
                 /\ NumberIsInteger(id) /\ id.num >= 0
                THEN id ELSE Undefined,
       error |-> JString(errorCode),
       message |-> JString(errorMessage)]

\* WindowBidiTransport.#getErrorResponse
getErrorResponse(text, errorCode, errorMessage) ==
  LET parsed == JsonParse(text)
      messageObj == parsed.value
      messageId ==
        IF /\ ~parsed.threw
           /\ getJsonType(messageObj) = "object"
           /\ HasMember(messageObj, "id")
          THEN messageObj.members.id
          ELSE Undefined
  IN  [id |-> messageId,
       error |-> JString(errorCode),
       message |-> JString(errorMessage)]

\* `if (value)` for the values a channel takes
Truthy(value) ==
  /\ value.kind \notin {"undefined", "null"}
  /\ ~(value.kind = "string" /\ value.str = "")

\* WindowBidiTransport.sendMessage: the string given to window.sendBidiResponse
sendMessage(message) == JsonStringify(message)

\* WindowBidiTransport.#respondWithError: the string it sends
respondWithError(plainCommandData, errorCode, errorMessage, channel) ==
  LET errorResponse == getErrorResponse(plainCommandData, errorCode, errorMessage)
  IN  IF Truthy(channel)
        THEN sendMessage(errorResponse @@ ("channel" :> channel))
        ELSE sendMessage(errorResponse)

(***************************************************************************)
(* The command processor behind the transport: it takes each command the   *)
(* transport hands on, processes it concurrently with the others, and      *)
(* answers it with {id, result, channel?} or {id, error, message,          *)
(* channel?}.                                                               *)
(***************************************************************************)
ProcessorErrors == {UnknownError, "no such frame"}

\* A mutant of ResponseId: the response takes the id of the oldest command
\* in flight.
ResponseId_Oldest(command) == Head(commands).id

\* The id of the response to a command
ResponseId(command) == command.id

\* The response to a command whose processing succeeded
ResolvedResponse(command) ==
  [id |-> ResponseId(command), result |-> JObject,
   channel |-> command.channel]

\* The response to a command whose processing failed
RejectedResponse(command, errorCode) ==
  [id |-> ResponseId(command), error |-> JString(errorCode),
   message |-> JString("failed"), channel |-> command.channel]

\* s without its i-th element
RemoveAt(s, i) == SubSeq(s, 1, i - 1) \o SubSeq(s, i + 1, Len(s))

(***************************************************************************)
(* The actions of Part I.                                                   *)
(***************************************************************************)
TransportInit ==
  /\ onMessage = FALSE
  /\ onBidiMessage = TRUE
  /\ messageStr = NoMessage
  /\ handlerArg = NoCommand
  /\ sent = <<>>
  /\ commands = <<>>
  /\ responded = NoCommand
  /\ respondedAt = 0

\* WindowBidiTransport.setOnMessage
SetOnMessage ==
  /\ ~onMessage
  /\ onBidiMessage
  /\ onMessage' = TRUE
  /\ messageStr' = NoMessage
  /\ handlerArg' = NoCommand
  /\ sent' = <<>>
  /\ responded' = NoCommand
  /\ respondedAt' = 0
  /\ UNCHANGED <<onBidiMessage, commands>>

\* WindowBidiTransport.close
Close ==
  /\ onBidiMessage
  /\ onMessage' = FALSE
  /\ onBidiMessage' = FALSE
  /\ messageStr' = NoMessage
  /\ handlerArg' = NoCommand
  /\ sent' = <<>>
  /\ responded' = NoCommand
  /\ respondedAt' = 0
  /\ UNCHANGED commands

\* window.onBidiMessage(messageStr), as the constructor of WindowBidiTransport
\* sets it
OnBidiMessage(text) ==
  /\ onBidiMessage
  /\ messageStr' = text
  /\ responded' = NoCommand
  /\ respondedAt' = 0
  /\ LET r == parseBidiMessage(text)
     IN  IF r.threw
           THEN \* Transport-level error does not provide channel.
                /\ sent' = <<respondWithError(text, InvalidArgument,
                                              r.message, JNull)>>
                /\ handlerArg' = NoCommand
                /\ UNCHANGED commands
         ELSE IF onMessage
           THEN /\ Len(commands) < MaxInFlight
                /\ handlerArg' = r.value
                /\ commands' = Append(commands, r.value)
                /\ sent' = <<>>
         ELSE /\ handlerArg' = NoCommand
              /\ sent' = <<>>
              /\ UNCHANGED commands
  /\ UNCHANGED <<onMessage, onBidiMessage>>

\* The processing of the i-th command in flight succeeds.
CommandResolved(i) ==
  /\ i \in 1..Len(commands)
  /\ sent' = <<sendMessage(ResolvedResponse(commands[i]))>>
  /\ responded' = commands[i]
  /\ respondedAt' = i
  /\ commands' = RemoveAt(commands, i)
  /\ messageStr' = NoMessage
  /\ handlerArg' = NoCommand
  /\ UNCHANGED <<onMessage, onBidiMessage>>

\* The processing of the i-th command in flight fails.
CommandRejected(i, errorCode) ==
  /\ i \in 1..Len(commands)
  /\ sent' = <<sendMessage(RejectedResponse(commands[i], errorCode))>>
  /\ responded' = commands[i]
  /\ respondedAt' = i
  /\ commands' = RemoveAt(commands, i)
  /\ messageStr' = NoMessage
  /\ handlerArg' = NoCommand
  /\ UNCHANGED <<onMessage, onBidiMessage>>

ReceiveMessage == \E text \in MessageStrs : OnBidiMessage(text)
ResolveCommand == \E i \in 1..MaxInFlight + 1 : CommandResolved(i)
RejectCommand ==
  \E i \in 1..MaxInFlight + 1, e \in ProcessorErrors : CommandRejected(i, e)

TransportNext ==
  /\ \/ SetOnMessage
     \/ Close
     \/ ReceiveMessage
     \/ ResolveCommand
     \/ RejectCommand
  /\ UNCHANGED <<contextVars, scriptVars, realmVars, inputVars, navVars,
                 eventVars, swapVars, unsupported>>

(***************************************************************************)
(* Part I.  Properties.                                                     *)
(***************************************************************************)
\* The members of the payload of the latest turn
Payload == messageStr.doc.members

\* The latest turn was a call of window.onBidiMessage.
Received == messageStr # NoMessage

\* The payload is a JSON object.
PayloadIsObject == messageStr.wellFormed /\ messageStr.doc.kind = "plainobject"

\* The envelope of section 4.6: an object with an integer id >= 0, a string
\* method, an object params and a channel that is absent or a string.
ValidEnvelope ==
  /\ PayloadIsObject
  /\ Payload.id.kind = "number" /\ Payload.id.den = 1 /\ Payload.id.num >= 0
  /\ Payload.method.kind = "string"
  /\ Payload.params.kind = "plainobject"
  /\ Payload.channel.kind \in {"undefined", "string"}

\* The latest turn sent exactly one response, an error with this code.
SentOneError(errorCode) ==
  /\ Len(sent) = 1
  /\ "error" \in DOMAIN sent[1]
  /\ sent[1]["error"] = JString(errorCode)

\* C1: window.onBidiMessage hands the payload to the registered handler iff
\* it is a valid envelope, with the channel absent when the payload's channel
\* is missing or empty; every other payload is answered with one `invalid
\* argument` error and the handler is not invoked.
C1_ForwardsIffValidEnvelope ==
  Received =>
    IF ValidEnvelope
      THEN onMessage =>
             /\ handlerArg # NoCommand
             /\ handlerArg.id = Payload.id
             /\ handlerArg.method = Payload.method
             /\ handlerArg.params = Payload.params
             /\ handlerArg.channel =
                  (IF Payload.channel \in {Undefined, JString("")}
                     THEN Undefined ELSE Payload.channel)
             /\ sent = <<>>
      ELSE /\ handlerArg = NoCommand
           /\ SentOneError(InvalidArgument)

\* C1 witness: a valid envelope with an empty channel was handed on.
C1_Witness ==
  /\ Received /\ ValidEnvelope /\ onMessage
  /\ Payload.channel = JString("")
  /\ handlerArg # NoCommand /\ handlerArg.channel = Undefined

\* C2: a payload rejected by envelope validation is answered with an
\* `invalid argument` error that carries the payload's id member whenever the
\* payload is a JSON object with an id member, and no id otherwise.
C2_ErrorCarriesPayloadId ==
  (Received /\ ~ValidEnvelope) =>
    /\ SentOneError(InvalidArgument)
    /\ IF PayloadIsObject /\ Payload.id # Undefined
         THEN "id" \in DOMAIN sent[1] /\ sent[1]["id"] = Payload.id
         ELSE "id" \notin DOMAIN sent[1]

\* C2 witness: a rejected payload with the id "7" was answered with that id.
C2_Witness ==
  /\ Received /\ PayloadIsObject
  /\ Payload.id = JString("7")
  /\ SentOneError(InvalidArgument)
  /\ "id" \in DOMAIN sent[1] /\ sent[1]["id"] = JString("7")

\* C3: a payload whose id is present but no integer is answered with an
\* `invalid argument` error that has no id field.
C3_NonIntegerIdOmitted ==
  (/\ Received /\ PayloadIsObject
   /\ Payload.id # Undefined
   /\ ~(Payload.id.kind = "number" /\ Payload.id.den = 1)) =>
    /\ SentOneError(InvalidArgument)
    /\ "id" \notin DOMAIN sent[1]

\* The response of the latest turn carries this channel.
SentChannel(channel) ==
  /\ Len(sent) = 1
  /\ "channel" \in DOMAIN sent[1]
  /\ sent[1]["channel"] = channel

\* C4 (as claimed): every response to an inbound command that carries a
\* non-empty channel carries that channel: success responses, processor
\* error responses and envelope-validation error responses alike.
C4_EveryResponseCarriesChannel ==
  /\ (/\ Received /\ PayloadIsObject
      /\ Payload.channel.kind = "string" /\ Payload.channel # JString("")
      /\ Len(sent) = 1) => SentChannel(Payload.channel)
  /\ (responded # NoCommand /\ Truthy(responded.channel)) =>
       SentChannel(responded.channel)

\* C4 (amended): a command that carries a non-empty channel is handed on
\* with that channel and its success or processor error response carries it;
\* an envelope-validation error response carries no channel.
C4_ProcessorResponsesCarryChannel ==
  /\ (/\ Received /\ handlerArg # NoCommand
      /\ Payload.channel.kind = "string" /\ Payload.channel # JString("")) =>
       handlerArg.channel = Payload.channel
  /\ (responded # NoCommand) =>
       IF responded.channel # Undefined
         THEN SentChannel(responded.channel)
         ELSE Len(sent) = 1 /\ "channel" \notin DOMAIN sent[1]
  /\ (Received /\ Len(sent) = 1) => "channel" \notin DOMAIN sent[1]

\* C4 witness: a payload with the channel "ch" was rejected by envelope
\* validation and its error response has no channel.
C4_Witness ==
  /\ Received /\ PayloadIsObject
  /\ Payload.channel = JString("ch")
  /\ SentOneError(InvalidArgument)
  /\ "channel" \notin DOMAIN sent[1]

\* C5: with several commands in flight, completing in any order, the
\* response to each command carries the id of that command, which is the id
\* of the payload it came from.
C5_ResponseCarriesOwnId ==
  /\ (Received /\ handlerArg # NoCommand) =>
       /\ handlerArg.id = Payload.id
       /\ Len(commands) >= 1 /\ commands[Len(commands)] = handlerArg
  /\ (responded # NoCommand) =>
       /\ Len(sent) = 1
       /\ "id" \in DOMAIN sent[1]
       /\ sent[1]["id"] = responded.id

\* C5 witness: the second command in flight was answered with its own id
\* while the first one, with another id, is still in flight.
C5_Witness ==
  /\ respondedAt = 2
  /\ Len(commands) >= 1
  /\ commands[1].id # responded.id
  /\ Len(sent) = 1 /\ sent[1]["id"] = responded.id

(***************************************************************************)
(* Part II.  The browser, as far as the processor sees it.                  *)
(***************************************************************************)
Null == "null"

\* The mapper's own tab, the other pages and the frames of the browser.
selfTargetId == "self"
PageIds == {"P1", "P2"}
FrameIds == {"F1"}
TargetIds == {selfTargetId} \cup PageIds \cup FrameIds
\* The frames in the document of a frame, which never get a target of
\* their own
NestedFrameIds == {"F2"}
AllFrameIds == FrameIds \cup NestedFrameIds
BrowserIds == TargetIds \cup NestedFrameIds
\* The ids the client names in its commands
NamedIds == {selfTargetId, "P1", "F1"}
\* The pages whose document embeds a frame
FrameHosts == {selfTargetId, "P1"}
\* The documents a frame can be in
HostsOf(frameId) ==
  IF frameId \in NestedFrameIds THEN FrameIds ELSE FrameHosts

\* The CDP client of the browser session and of the session of a target.
BrowserSession == <<"browser", 0>>
SessionOf(targetId) == <<targetId, 1>>

\* Target.TargetInfo.type
TargetType(targetId) == IF targetId \in FrameIds THEN "iframe" ELSE "page"

(***************************************************************************)
(* BrowsingContextStorage and BrowsingContextImpl.                          *)
(***************************************************************************)
NoSuchFrame == "no such frame"
Success == "success"

\* BrowsingContextStorage.findContext: the id is known
findContext(id) == id \in DOMAIN contexts

\* BrowsingContextImpl.isTopLevelContext
isTopLevelContext(context) == context.parentId = Null

\* BrowsingContextStorage.getTopLevelContexts
getTopLevelContexts ==
  {id \in DOMAIN contexts : isTopLevelContext(contexts[id])}

\* The contexts of `ids` and the contexts below them
RECURSIVE WithDescendants(_, _)
WithDescendants(store, ids) ==
  LET below == {c \in DOMAIN store : store[c].parentId \in ids} \ ids
  IN  IF below = {} THEN ids ELSE WithDescendants(store, ids \cup below)

\* BrowsingContextImpl.create: a context in its initial document
createContext(store, id, parentId, cdpTarget) ==
  [c \in DOMAIN store \cup {id} |->
     IF c = id
       THEN [parentId |-> parentId, cdpTarget |-> cdpTarget,
             lifecycle |-> "loading"]
       ELSE store[c]]

\* BrowsingContextImpl.delete: the context leaves the storage with the
\* contexts below it
deleteContext(store, id) ==
  [c \in DOMAIN store \ WithDescendants(store, {id}) |-> store[c]]

\* BrowsingContextImpl.updateCdpTarget
updateCdpTarget(store, id, cdpTarget) ==
  [store EXCEPT ![id].cdpTarget = cdpTarget]

\* BrowsingContextImpl.serializeToBidiValue, for a set of roots: the ids of
\* the contexts the value lists
serializeToBidiValue(store, roots) == WithDescendants(store, roots)

(***************************************************************************)
(* Pending commands, results and the turn.                                   *)
(***************************************************************************)
\* A pending command.  browsingContext.close: pc is "closeTarget" while the
\* Target.closeTarget reply is awaited and "detached" while
\* detachedFromTargetPromise is awaited; `listening`: onContextDestroyed is
\* registered on the browser client; `detached`: the promise is resolved.
\* browsingContext.create: pc is "createTarget" until the browser has
\* created the target, "reply" while the reply that names it is on its way
\* and "loaded" while context.awaitLoaded() is awaited.
\* `replySeen` and `detachSeen` record what has happened since the command
\* started: the Target.closeTarget reply has arrived; the browser client
\* has dispatched a Target.detachedFromTarget of the command's context.
Call(method, context, pc) ==
  [method |-> method, context |-> context, pc |-> pc,
   listening |-> FALSE, detached |-> FALSE,
   replySeen |-> FALSE, detachSeen |-> FALSE]

\* The result of a command: its status, the contexts a getTree result lists,
\* whether the load of the context had fired (create), and what the command
\* had seen (close).
Response(method, context, status) ==
  [method |-> method, context |-> context, status |-> status,
   contexts |-> {}, loaded |-> FALSE,
   replySeen |-> FALSE, detachSeen |-> FALSE]

\* The latest turn of the processor: a command with its parameter, or an
\* event or a reply from the browser.
Turn(op, id) == [op |-> op, id |-> id]
Event == Turn("event", Null)
Reply == Turn("reply", Null)

\* The result of a browsingContext.close that resolves
CloseResult(call) ==
  [Response("close", call.context, Success) EXCEPT
     !.replySeen = call.replySeen, !.detachSeen = call.detachSeen]

\* The result of a browsingContext.create that returns {context: context.id}
CreateResult(store, call) ==
  [Response("create", call.context, Success) EXCEPT
     !.loaded = (call.context \in DOMAIN store
                 /\ store[call.context].lifecycle = "complete")]

(***************************************************************************)
(* BrowsingContextProcessor: the CDP event handlers.                         *)
(***************************************************************************)
\* A mutant of isValidTarget: the mapper's own target is not filtered out.
isValidTarget_NoSelfCheck(targetId, type) == type \in {"page", "iframe"}

\* BrowsingContextProcessor.#isValidTarget
isValidTarget(targetId, type) ==
  IF targetId = selfTargetId THEN FALSE ELSE type \in {"page", "iframe"}

\* A mutant of handleFrameAttachedEvent: the child is created whether or
\* not the parent is known.
handleFrameAttachedEvent_AnyParent(store, frameId, parentFrameId) ==
  createContext(store, frameId, parentFrameId,
                IF parentFrameId \in DOMAIN store
                  THEN store[parentFrameId].cdpTarget ELSE Null)

\* BrowsingContextProcessor.#handleFrameAttachedEvent: the storage after it
handleFrameAttachedEvent(store, frameId, parentFrameId) ==
  IF parentFrameId \in DOMAIN store
    THEN createContext(store, frameId, parentFrameId,
                       store[parentFrameId].cdpTarget)
    ELSE store

\* A mutant of handleFrameDetachedEvent: the reason is not looked at.
handleFrameDetachedEvent_AnyReason(store, frameId, reason) ==
  IF frameId \in DOMAIN store THEN deleteContext(store, frameId) ELSE store

\* BrowsingContextProcessor.#handleFrameDetachedEvent: the storage after it
handleFrameDetachedEvent(store, frameId, reason) ==
  IF reason = "swap" THEN store
  ELSE IF frameId \in DOMAIN store THEN deleteContext(store, frameId)
  ELSE store

\* #handleAttachedToTargetEvent: CdpTarget.create(targetInfo.targetId,
\* maybeContext?.parentId ?? null, ...), the CdpTarget objects after it
createCdpTarget(targets, store, targetId) ==
  [t \in DOMAIN targets \cup {targetId} |->
     IF t = targetId
       THEN IF targetId \in DOMAIN store THEN store[targetId].parentId
            ELSE Null
       ELSE targets[t]]

\* A mutant of attachContext: a context is created whether or not one has
\* the id of the target.
attachContext_AlwaysCreates(store, targetId, sessionId) ==
  createContext(store, targetId, Null, sessionId)

\* BrowsingContextProcessor.#handleAttachedToTargetEvent, for a valid
\* target: the storage after it
attachContext(store, targetId, sessionId) ==
  IF targetId \in DOMAIN store
    THEN updateCdpTarget(store, targetId, sessionId)
    ELSE createContext(store, targetId, Null, sessionId)

\* A mutant of handleDetachedFromTargetEvent: the context is not deleted.
handleDetachedFromTargetEvent_KeepsContext(store, targetId) == store

\* BrowsingContextProcessor.#handleDetachedFromTargetEvent: the storage
\* after it
handleDetachedFromTargetEvent(store, targetId) ==
  IF targetId \in DOMAIN store THEN deleteContext(store, targetId) ELSE store

\* A mutant of onContextDestroyed: the target of the event is not compared
\* with the context of the command.
onContextDestroyed_AnyTarget(call, eventTargetId) ==
  IF call.method = "close" /\ call.listening
    THEN [call EXCEPT !.listening = FALSE, !.detached = TRUE]
    ELSE call

\* process_browsingContext_close.onContextDestroyed: the command after its
\* listener has seen a Target.detachedFromTarget
onContextDestroyed(call, eventTargetId) ==
  IF call.method = "close" /\ call.listening
     /\ eventTargetId = call.context
    THEN [call EXCEPT !.listening = FALSE, !.detached = TRUE]
    ELSE call

\* The browser client has dispatched a Target.detachedFromTarget.
SeesDetach(call, eventTargetId) ==
  IF call.method = "close" /\ eventTargetId = call.context
    THEN [call EXCEPT !.detachSeen = TRUE]
    ELSE call

\* A mutant of closeResumes: the command does not await the promise.
closeResumes_NoAwait(call) == call.method = "close" /\ call.pc = "detached"

\* process_browsingContext_close resumes from `await
\* detachedFromTargetPromise`
closeResumes(call) ==
  call.method = "close" /\ call.pc = "detached" /\ call.detached

\* BrowsingContextImpl.awaitLoaded has resolved.
awaitLoaded(store, id) ==
  id \in DOMAIN store /\ store[id].lifecycle = "complete"

\* A mutant of createResumes: the command does not await the load.
createResumes_NoAwait(store, call) ==
  call.method = "create" /\ call.pc = "loaded"

\* process_browsingContext_create resumes from `await context.awaitLoaded()`
createResumes(store, call) ==
  call.method = "create" /\ call.pc = "loaded"
  /\ awaitLoaded(store, call.context)

\* A mutant of awaitLoadedRejects: the deletion of the context leaves the
\* `loaded` signal pending.
awaitLoadedRejects_Never(store, id) == FALSE

\* BrowsingContextImpl.delete fails what awaits the `loaded` signal of the
\* context: awaitLoaded has rejected.
awaitLoadedRejects(store, id) == id \notin DOMAIN store

\* process_browsingContext_create throws from `await context.awaitLoaded()`
createFails(store, call) ==
  call.method = "create" /\ call.pc = "loaded"
  /\ awaitLoadedRejects(store, call.context)

\* The commands that resume in this turn end; the others stay pending.
Resumes(store, call) ==
  closeResumes(call) \/ createResumes(store, call) \/ createFails(store, call)

Settle(store, cs) ==
  LET Pending(call) == ~Resumes(store, call)
      ended == {i \in 1..Len(cs) : Resumes(store, cs[i])}
  IN  /\ calls' = SelectSeq(cs, Pending)
      /\ responses' =
           {IF cs[i].method = "close" THEN CloseResult(cs[i])
            ELSE IF createFails(store, cs[i])
              THEN Response("create", cs[i].context, UnknownError)
            ELSE CreateResult(store, cs[i]) : i \in ended}
      /\ closed' = closed \cup
           {cs[i].context : i \in {j \in ended : cs[j].method = "close"}}

(***************************************************************************)
(* PreloadScriptStorage, and the preload scripts of a CdpTarget.             *)
(***************************************************************************)
\* The ids of the BiDi preload scripts; none is used twice.
ScriptIds == {"S1", "S2"}

\* CdpPreloadScript: a CDP script of a target.  BidiPreloadScript: the
\* context it is for (Null: all) and the CDP scripts that materialize it.
CdpPreloadScript(target, preloadScriptId) ==
  [target |-> target, preloadScriptId |-> preloadScriptId]
BidiPreloadScript(contextId, cdpPreloadScripts) ==
  [contextId |-> contextId, cdpPreloadScripts |-> cdpPreloadScripts]

\* PreloadScriptStorage.addPreloadScripts
addPreloadScripts(storage, id, contextId, cdpPreloadScripts) ==
  [s \in DOMAIN storage \cup {id} |->
     IF s = id THEN BidiPreloadScript(contextId, cdpPreloadScripts)
     ELSE storage[s]]

\* PreloadScriptStorage.removeBiDiPreloadScripts({id})
removeBiDiPreloadScripts(storage, id) ==
  [s \in DOMAIN storage \ {id} |-> storage[s]]

\* PreloadScriptStorage.removeCdpPreloadScripts({targetId}): the records
\* stay, without the CDP scripts of the target
removeCdpPreloadScripts(storage, targetId) ==
  [s \in DOMAIN storage |->
     [storage[s] EXCEPT !.cdpPreloadScripts =
        SelectSeq(@, LAMBDA script : script.target # targetId)]]

\* BrowsingContextImpl.top: the top-level context above a context
RECURSIVE TopOf(_, _, _)
TopOf(store, id, n) ==
  IF id \notin DOMAIN store \/ n = 0 THEN id
  ELSE IF store[id].parentId = Null THEN id
  ELSE TopOf(store, store[id].parentId, n - 1)

\* The elements of a set, one after the other
RECURSIVE SetToSeq(_)
SetToSeq(S) ==
  IF S = {} THEN << >>
  ELSE LET x == CHOOSE y \in S : TRUE IN <<x>> \o SetToSeq(S \ {x})

\* The sequence has the element.
Has(seq, x) == \E i \in 1..Len(seq) : seq[i] = x

\* The position of an element in a sequence without repetitions
IndexOf(seq, x) == CHOOSE i \in 1..Len(seq) : seq[i] = x

\* CdpTarget.create: the records a new target of top-level context `top`
\* installs, in the order it installs them
ApplicableScripts(storage, top) ==
  SetToSeq({s \in DOMAIN storage : storage[s].contextId \in {Null, top}})

\* The browser runs Page.addScriptToEvaluateOnNewDocument for `script` on
\* a target, under the next identifier of that target, n identifiers
\* after the ones it has issued.
InstalledScript(targetId, script, n) ==
  [target |-> targetId, preloadScriptId |-> cdpScriptIds[targetId] + n,
   script |-> script]

(***************************************************************************)
(* RealmStorage and Realm.                                                   *)
(***************************************************************************)
\* The ids of the realms, which are those of their execution contexts, and
\* the ids of the remote objects; none is used twice.
RealmIds == {"R1", "R2"}
Handles == {"h1", "h2"}

NoSuchRealm == "no such realm"

\* A mutant of Realm: the realm records no browsing context.
Realm_NoContext(browsingContextId, cdpSessionId) ==
  [browsingContextId |-> Null, cdpSessionId |-> cdpSessionId]

\* Realm.constructor: the fields of a realm
Realm(browsingContextId, cdpSessionId) ==
  [browsingContextId |-> browsingContextId, cdpSessionId |-> cdpSessionId]

\* Realm.constructor: realmStorage.realmMap.set(realmId, this)
addRealm(storage, realmId, realm) ==
  [r \in DOMAIN storage \cup {realmId} |->
     IF r = realmId THEN realm ELSE storage[r]]

\* RealmStorage.deleteRealms: the realms without the given ones
deleteRealms(storage, realmIds) ==
  [r \in DOMAIN storage \ realmIds |-> storage[r]]

\* RealmStorage: the handles without those of the deleted realms
purgeHandles(handles, realmIds) ==
  [h \in {k \in DOMAIN handles : handles[k] \notin realmIds} |-> handles[h]]

\* The realms of the contexts that a handler deleted from the storage
RealmsOfDeleted(storage, before, after) ==
  {r \in DOMAIN storage :
     storage[r].browsingContextId \in (DOMAIN before) \ (DOMAIN after)}

\* BrowsingContextImpl.delete: the realms of the deleted contexts and
\* their handles leave the RealmStorage.
CascadeDelete(before, after) ==
  LET gone == RealmsOfDeleted(realmMap, before, after)
  IN  /\ realmMap' = deleteRealms(realmMap, gone)
      /\ knownHandlesToRealm' = purgeHandles(knownHandlesToRealm, gone)

(***************************************************************************)
(* The browser: targets attach and detach, frames come and go, documents    *)
(* load.  An event reaches the processor when the processor has set its      *)
(* listeners on the session the event arrives on.  Ids are never reused.     *)
(***************************************************************************)
Removed == "removed"

\* The session on which the events about a target arrive
ParentSession(targetId) ==
  IF targetId \in FrameIds THEN SessionOf(frameParent[targetId])
  ELSE BrowserSession

\* The session on which the events about the frames in the document of
\* `id` arrive: that of the target whose process holds the document
HostSession(id) ==
  IF id \in FrameIds /\ browserTargets[id] # "attached"
    THEN SessionOf(frameParent[id])
    ELSE SessionOf(id)

\* The session of a target is open: the target is attached, or the browser
\* has yet to detach the target of a frame that has left its document.
SessionOpen(targetId) == browserTargets[targetId] \in {"attached", "detaching"}

\* The frames in the document of `id`, and the frames in theirs
HostedFrames(id) ==
  LET inside == {f \in AllFrameIds : frameParent[f] = id}
  IN  inside \cup {f \in AllFrameIds : frameParent[f] \in inside}

ScriptInit ==
  /\ installed = {}
  /\ cdpScriptIds = [t \in TargetIds |-> 0]
  /\ preloadScripts = << >>
  /\ scriptCalls = << >>
  /\ issuedScripts = {}

\* The execution contexts that exist in the browser, and their objects
LiveContexts ==
  {r \in RealmIds : executionContexts[r].state = "live"}
LiveObjects == {h \in Handles : objects[h].state = "live"}

\* The browser destroys execution contexts, and their objects with them.
DestroyContexts(gone) ==
  /\ executionContexts' =
       [r \in RealmIds |->
          IF r \in gone
            THEN [executionContexts[r] EXCEPT !.state = "destroyed"]
            ELSE executionContexts[r]]
  /\ objects' =
       [h \in Handles |->
          IF h \in LiveObjects /\ objects[h].context \in gone
            THEN [objects[h] EXCEPT !.state = "released"]
            ELSE objects[h]]

RealmInit ==
  /\ executionContexts =
       [r \in RealmIds |-> [frame |-> Null, target |-> Null, state |-> "new"]]
  /\ objects = [h \in Handles |-> [context |-> Null, state |-> "new"]]
  /\ realmMap = << >>
  /\ knownHandlesToRealm = << >>
  /\ realmCalls = << >>
  /\ releases = {}

ContextInit ==
  /\ browserTargets = [t \in BrowserIds |-> "new"]
  /\ frameParent = [f \in AllFrameIds |-> Null]
  /\ listeners = {BrowserSession}
  /\ cdpTargets = << >>
  /\ contexts = << >>
  /\ calls = << >>
  /\ turn = Turn("start", Null)
  /\ responses = {}
  /\ closed = {}

\* CdpTarget.create: the new target installs the preload scripts that
\* apply to it and appends each CDP script to its record.
InstallPreloadScripts(targetId) ==
  LET top == TopOf(contexts, targetId, Cardinality(DOMAIN contexts))
      scripts == ApplicableScripts(preloadScripts, top)
  IN  /\ installed' = installed \cup
           {InstalledScript(targetId, scripts[n], n) :
              n \in 1..Len(scripts)}
      /\ cdpScriptIds' =
           [cdpScriptIds EXCEPT ![targetId] = @ + Len(scripts)]
      /\ preloadScripts' =
           [s \in DOMAIN preloadScripts |->
              IF Has(scripts, s)
                THEN [preloadScripts[s] EXCEPT !.cdpPreloadScripts =
                        Append(@, CdpPreloadScript(targetId,
                          cdpScriptIds[targetId] + IndexOf(scripts, s)))]
                ELSE preloadScripts[s]]

\* Target.attachedToTarget and #handleAttachedToTargetEvent
TargetAttached(targetId) ==
  /\ IF targetId \in FrameIds
       THEN /\ browserTargets[targetId] = "new"
            /\ frameParent[targetId] \in TargetIds
            /\ browserTargets[frameParent[targetId]] = "attached"
            /\ HostedFrames(targetId) = {}
       ELSE browserTargets[targetId] \in {"new", "created"}
  /\ browserTargets' = [browserTargets EXCEPT ![targetId] = "attached"]
  /\ IF /\ ParentSession(targetId) \in listeners
        /\ isValidTarget(targetId, TargetType(targetId))
       THEN /\ listeners' = listeners \cup {SessionOf(targetId)}
            /\ cdpTargets' = createCdpTarget(cdpTargets, contexts, targetId)
            /\ contexts' = attachContext(contexts, targetId, targetId)
            /\ InstallPreloadScripts(targetId)
       ELSE UNCHANGED <<listeners, cdpTargets, contexts, installed,
                        cdpScriptIds, preloadScripts>>
  /\ turn' = Event
  /\ responses' = {}
  /\ UNCHANGED <<frameParent, calls, closed, scriptCalls, issuedScripts>>
  /\ UNCHANGED realmVars

\* Target.detachedFromTarget, #handleDetachedFromTargetEvent and, on the
\* browser client, the onContextDestroyed of the pending close commands
TargetDetached(targetId) ==
  /\ SessionOpen(targetId)
  /\ \A f \in HostedFrames(targetId) : ~SessionOpen(f)
  /\ browserTargets' = [browserTargets EXCEPT ![targetId] = "closed"]
  /\ frameParent' = [f \in AllFrameIds |->
       IF \/ f \in HostedFrames(targetId)
          \/ f = targetId /\ browserTargets[f] = "detaching"
         THEN Removed ELSE frameParent[f]]
  /\ LET store == IF ParentSession(targetId) \in listeners
                    THEN handleDetachedFromTargetEvent(contexts, targetId)
                    ELSE contexts
         cs == IF ParentSession(targetId) = BrowserSession
                 THEN [i \in 1..Len(calls) |->
                         onContextDestroyed(SeesDetach(calls[i], targetId),
                                            targetId)]
                 ELSE calls
     IN  /\ contexts' = store
         /\ Settle(store, cs)
         /\ CascadeDelete(contexts, store)
  /\ DestroyContexts({r \in LiveContexts :
                          executionContexts[r].target = targetId})
  /\ UNCHANGED <<realmCalls, releases>>
  /\ installed' = {script \in installed : script.target # targetId}
  /\ preloadScripts' =
       IF ParentSession(targetId) \in listeners
         THEN removeCdpPreloadScripts(preloadScripts, targetId)
         ELSE preloadScripts
  /\ turn' = Event
  /\ UNCHANGED <<listeners, cdpTargets, cdpScriptIds, scriptCalls,
                 issuedScripts>>

\* Page.frameAttached and #handleFrameAttachedEvent
FrameAttached(frameId, parentFrameId) ==
  /\ frameParent[frameId] = Null
  /\ parentFrameId \in HostsOf(frameId)
  /\ IF parentFrameId \in FrameIds
       THEN frameParent[parentFrameId] \in TargetIds
       ELSE browserTargets[parentFrameId] = "attached"
  /\ frameParent' = [frameParent EXCEPT ![frameId] = parentFrameId]
  /\ contexts' = IF HostSession(parentFrameId) \in listeners
                   THEN handleFrameAttachedEvent(contexts, frameId,
                                                 parentFrameId)
                   ELSE contexts
  /\ turn' = Event
  /\ UNCHANGED <<scriptVars, realmVars>>
  /\ responses' = {}
  /\ UNCHANGED <<browserTargets, listeners, cdpTargets, calls, closed>>

\* Page.frameDetached and #handleFrameDetachedEvent
FrameDetached(frameId, reason) ==
  /\ frameParent[frameId] \in TargetIds
  /\ browserTargets[frameId] # "detaching"
  /\ reason = "remove" => browserTargets[frameId] # "attached"
  /\ frameParent' = IF reason = "remove"
                      THEN [f \in AllFrameIds |->
                              IF f \in {frameId} \cup HostedFrames(frameId)
                                THEN Removed ELSE frameParent[f]]
                      ELSE frameParent
  /\ LET store == IF HostSession(frameParent[frameId]) \in listeners
                    THEN handleFrameDetachedEvent(contexts, frameId, reason)
                    ELSE contexts
     IN  /\ contexts' = store
         /\ CascadeDelete(contexts, store)
  /\ DestroyContexts(IF reason = "remove"
                       THEN {r \in LiveContexts :
                               executionContexts[r].frame \in
                                 {frameId} \cup HostedFrames(frameId)}
                       ELSE {})
  /\ UNCHANGED <<realmCalls, releases>>
  /\ turn' = Event
  /\ UNCHANGED scriptVars
  /\ responses' = {}
  /\ UNCHANGED <<browserTargets, listeners, cdpTargets, calls, closed>>

\* Page.lifecycleEvent of the initial document of a top-level context, as
\* BrowsingContextImpl hears it: DOMContentLoaded, then load, which resolves
\* the `loaded` of the context.  The documents of the frames are left out.
LifecycleEvent(id, name) ==
  /\ id \in DOMAIN contexts
  /\ id \notin AllFrameIds
  /\ browserTargets[contexts[id].cdpTarget] = "attached"
  /\ \/ name = "DOMContentLoaded" /\ contexts[id].lifecycle = "loading"
     \/ name = "load" /\ contexts[id].lifecycle = "interactive"
  /\ LET store == [contexts EXCEPT ![id].lifecycle =
                     IF name = "load" THEN "complete" ELSE "interactive"]
     IN  /\ contexts' = store
         /\ Settle(store, calls)
  /\ turn' = Event
  /\ UNCHANGED <<scriptVars, realmVars>>
  /\ UNCHANGED <<browserTargets, frameParent, listeners, cdpTargets>>

(***************************************************************************)
(* BrowsingContextProcessor: the commands.                                   *)
(***************************************************************************)
\* BrowsingContextStorage.getContext of the root of a getTree: the error it
\* throws, or Success
getTreeError(root) ==
  IF root # Null /\ ~findContext(root) THEN NoSuchFrame ELSE Success

\* process_browsingContext_getTree
ProcessGetTree(root) ==
  /\ responses' =
       {IF getTreeError(root) # Success
          THEN Response("getTree", root, getTreeError(root))
          ELSE [Response("getTree", root, Success) EXCEPT !.contexts =
                  serializeToBidiValue(contexts,
                    IF root = Null THEN getTopLevelContexts ELSE {root})]}
  /\ turn' = Turn("browsingContext.getTree", root)
  /\ UNCHANGED <<scriptVars, realmVars>>
  /\ UNCHANGED <<browserTargets, frameParent, listeners, cdpTargets,
                 contexts, calls, closed>>

\* process_browsingContext_create up to Target.createTarget: the error it
\* throws, or Success
createError(referenceContext) ==
  IF referenceContext = Null THEN Success
  ELSE IF ~findContext(referenceContext) THEN NoSuchFrame
  ELSE IF ~isTopLevelContext(contexts[referenceContext])
    THEN InvalidArgument
  ELSE Success

\* process_browsingContext_create, up to its first await
ProcessCreate(referenceContext) ==
  /\ IF createError(referenceContext) # Success
       THEN /\ responses' = {Response("create", referenceContext,
                                      createError(referenceContext))}
            /\ UNCHANGED calls
       ELSE /\ Len(calls) < MaxCalls
            /\ calls' = Append(calls, Call("create", Null, "createTarget"))
            /\ responses' = {}
  /\ turn' = Turn("browsingContext.create", referenceContext)
  /\ UNCHANGED <<scriptVars, realmVars>>
  /\ UNCHANGED <<browserTargets, frameParent, listeners, cdpTargets,
                 contexts, closed>>

\* The browser runs a Target.createTarget: a new page target, whose id the
\* reply carries
CreateTarget(i, targetId) ==
  /\ i \in 1..Len(calls)
  /\ calls[i].method = "create" /\ calls[i].pc = "createTarget"
  /\ targetId \in PageIds
  /\ browserTargets[targetId] = "new"
  /\ browserTargets' = [browserTargets EXCEPT ![targetId] = "created"]
  /\ calls' = [calls EXCEPT ![i].context = targetId, ![i].pc = "reply"]
  /\ turn' = Event
  /\ UNCHANGED <<scriptVars, realmVars>>
  /\ responses' = {}
  /\ UNCHANGED <<frameParent, listeners, cdpTargets, contexts, closed>>

\* process_browsingContext_create, from the reply of Target.createTarget
CreateTargetReply(i) ==
  /\ i \in 1..Len(calls)
  /\ calls[i].method = "create" /\ calls[i].pc = "reply"
  /\ IF ~findContext(calls[i].context)
       THEN /\ calls' = RemoveAt(calls, i)
            /\ responses' =
                 {Response("create", calls[i].context, NoSuchFrame)}
            /\ UNCHANGED closed
       ELSE Settle(contexts, [calls EXCEPT ![i].pc = "loaded"])
  /\ turn' = Reply
  /\ UNCHANGED <<scriptVars, realmVars>>
  /\ UNCHANGED <<browserTargets, frameParent, listeners, cdpTargets,
                 contexts>>

\* A mutant of closeError: a context that is not top-level is accepted.
closeError_NoTopLevelCheck(context) ==
  IF ~findContext(context) THEN NoSuchFrame ELSE Success

\* process_browsingContext_close up to Target.closeTarget: the error it
\* throws, or Success
closeError(context) ==
  IF ~findContext(context) THEN NoSuchFrame
  ELSE IF ~isTopLevelContext(contexts[context]) THEN InvalidArgument
  ELSE Success

\* process_browsingContext_close, up to its first await
ProcessClose(context) ==
  /\ IF closeError(context) # Success
       THEN /\ responses' = {Response("close", context, closeError(context))}
            /\ UNCHANGED calls
       ELSE /\ Len(calls) < MaxCalls
            /\ calls' = Append(calls,
                 [Call("close", context, "closeTarget") EXCEPT
                    !.listening = TRUE])
            /\ responses' = {}
  /\ turn' = Turn("browsingContext.close", context)
  /\ UNCHANGED <<scriptVars, realmVars>>
  /\ UNCHANGED <<browserTargets, frameParent, listeners, cdpTargets,
                 contexts, closed>>

\* process_browsingContext_close, from the reply of Target.closeTarget: an
\* error of the browser rejects the command.
CloseTargetReply(i, ok) ==
  /\ i \in 1..Len(calls)
  /\ calls[i].method = "close" /\ calls[i].pc = "closeTarget"
  /\ IF ~ok
       THEN /\ calls' = RemoveAt(calls, i)
            /\ responses' =
                 {Response("close", calls[i].context, UnknownError)}
            /\ UNCHANGED closed
       ELSE Settle(contexts, [calls EXCEPT ![i].pc = "detached",
                                           ![i].replySeen = TRUE])
  /\ turn' = Reply
  /\ UNCHANGED <<scriptVars, realmVars>>
  /\ UNCHANGED <<browserTargets, frameParent, listeners, cdpTargets,
                 contexts>>

(***************************************************************************)
(* The specifications.                                                       *)
(***************************************************************************)
AttachTarget == \E t \in TargetIds : TargetAttached(t)
DetachTarget == \E t \in TargetIds : TargetDetached(t)
AttachFrame ==
  \E f \in FrameIds, parent \in TargetIds : FrameAttached(f, parent)
DetachFrame ==
  \E f \in FrameIds, reason \in {"remove", "swap"} : FrameDetached(f, reason)
Lifecycle ==
  \E id \in TargetIds, name \in {"DOMContentLoaded", "load"} :
    LifecycleEvent(id, name)
GetTree == \E root \in NamedIds \cup {Null} : ProcessGetTree(root)
Create == \E ref \in NamedIds \cup {Null} : ProcessCreate(ref)
BrowserCreates ==
  \E i \in 1..MaxCalls, t \in PageIds : CreateTarget(i, t)
CreateReply == \E i \in 1..MaxCalls : CreateTargetReply(i)
CloseContext == \E context \in NamedIds : ProcessClose(context)
CloseReply == \E i \in 1..MaxCalls, ok \in BOOLEAN : CloseTargetReply(i, ok)

Next ==
  /\ \/ AttachTarget
     \/ DetachTarget
     \/ AttachFrame
     \/ DetachFrame
     \/ Lifecycle
     \/ GetTree
     \/ Create
     \/ BrowserCreates
     \/ CreateReply
     \/ CloseContext
     \/ CloseReply
  /\ UNCHANGED <<transportVars, unsupported, swapVars, eventVars, inputVars,
                 navVars>>

\* new InputStateManager()
InputInit ==
  /\ inputStates = << >>
  /\ inputCalls = << >>
  /\ dispatched = << >>
  /\ performed = << >>
  /\ firstUse = {}

\* The pages show their initial documents, and no command navigates: the
\* loader ids of the documents each page has shown, the latest last.
NavInit ==
  /\ documents = [t \in PageIds |-> <<"L0">>]
  /\ navigations = << >>
  /\ navigated = {}
  /\ blocked = {}
  /\ evaluations = << >>
  /\ evaluated = {}

\* new EventManager(): no subscription, nothing stored
EventInit ==
  /\ subscriptions = {}
  /\ eventBuffer = [t \in PageIds |-> << >>]
  /\ registered = << >>
  /\ emitted = << >>
  /\ delivered = {}
  /\ sessionCommands = 0

\* No Page.frameDetached was handled in the turn.
NoFrameEvent == [frameId |-> Null, reason |-> Null, known |-> FALSE]

SwapInit ==
  /\ migrations = [f \in FrameIds |-> 0]
  /\ oldSessions = {}
  /\ frameDetached = NoFrameEvent

\* No target has been attached.
UnsupportedInit == unsupported = << >>

Init ==
  /\ TransportInit /\ ContextInit /\ ScriptInit /\ RealmInit /\ InputInit
  /\ NavInit /\ EventInit /\ SwapInit /\ UnsupportedInit

TransportSpec == Init /\ [][TransportNext]_vars

Spec == Init /\ [][Next]_vars

(***************************************************************************)
(* Part II: the properties.                                                  *)
(***************************************************************************)
Resolved(method) ==
  {r \in responses : r.method = method /\ r.status = Success}

PendingCloses == {i \in 1..Len(calls) : calls[i].method = "close"}

\* C6: the self target never gets a browsing context, a CdpTarget or
\* listeners on its session, and no browsingContext.getTree lists it,
\* whatever events the browser has sent.
C6_SelfTargetFilteredOut ==
  /\ selfTargetId \notin DOMAIN contexts
  /\ selfTargetId \notin DOMAIN cdpTargets
  /\ SessionOf(selfTargetId) \notin listeners
  /\ \A r \in responses : selfTargetId \notin r.contexts

\* The self target has attached, with a frame in its document, and a
\* browsingContext.getTree lists the contexts there are.
C6_Witness ==
  /\ browserTargets[selfTargetId] = "attached"
  /\ frameParent["F1"] = selfTargetId
  /\ \E r \in Resolved("getTree") : r.contexts # {}

\* C7: a browsingContext.close resolves only after both the reply of
\* Target.closeTarget and a Target.detachedFromTarget of its context, in
\* either order: a detach before the reply is not missed, a detach of
\* another target does not resolve it, and it resolves once it has both.
C7_CloseAwaitsReplyAndDetach ==
  /\ \A r \in Resolved("close") : r.replySeen /\ r.detachSeen
  /\ \A i \in PendingCloses :
       /\ calls[i].detached <=> calls[i].detachSeen
       /\ ~(calls[i].replySeen /\ calls[i].detachSeen)

\* A close resolves on the reply of Target.closeTarget, the detach of its
\* context having come first, after another target has detached as well.
C7_Witness ==
  /\ turn = Reply
  /\ Resolved("close") # {}
  /\ browserTargets["P2"] = "closed"

\* C8: once a browsingContext.close has resolved, from that moment on its
\* context is not in the storage and no browsingContext.getTree lists it.
C8_ClosedContextNotListed ==
  \A id \in closed :
    /\ id \notin DOMAIN contexts
    /\ \A r \in responses : id \notin r.contexts

\* A browsingContext.getTree after a close has resolved lists the contexts
\* that are left.
C8_Witness ==
  /\ closed # {}
  /\ \E r \in Resolved("getTree") : r.contexts # {}

\* C9: a browsingContext.close of a context that is not top-level fails
\* with `invalid argument`: no Target.closeTarget is sent, no listener is
\* registered (no command becomes pending) and no context is removed.
C9_CloseOfChildRejected ==
  [][\A id \in NamedIds :
       (/\ turn' = Turn("browsingContext.close", id)
        /\ id \in DOMAIN contexts
        /\ ~isTopLevelContext(contexts[id]))
       => /\ responses' = {Response("close", id, InvalidArgument)}
          /\ UNCHANGED <<contexts, calls, listeners, browserTargets>>]_vars

\* A browsingContext.close of the frame, which is a child context, has
\* failed.
C9_Witness ==
  /\ turn = Turn("browsingContext.close", "F1")
  /\ "F1" \in DOMAIN contexts
  /\ ~isTopLevelContext(contexts["F1"])
  /\ responses = {Response("close", "F1", InvalidArgument)}

\* C10: a browsingContext.create returns the id of the target the reply of
\* Target.createTarget names, a page the browser has created, and not
\* before the load of the initial document of that context has fired.
C10_CreateReturnsLoadedTarget ==
  \A r \in Resolved("create") :
    /\ r.loaded
    /\ r.context \in PageIds
    /\ browserTargets[r.context] = "attached"
    /\ r.context \in getTopLevelContexts

\* A browsingContext.create returns on the load event, which comes after
\* the reply of Target.createTarget.
C10_Witness ==
  /\ turn = Event
  /\ Resolved("create") # {}

(***************************************************************************)
(* The tree of contexts under the events of the browser alone, with a       *)
(* frame inside the frame.  Specification: TreeSpec.                         *)
(***************************************************************************)
AttachNestedFrame ==
  \E f \in NestedFrameIds, parent \in FrameIds : FrameAttached(f, parent)
DetachNestedFrame ==
  \E f \in NestedFrameIds, reason \in {"remove", "swap"} :
    FrameDetached(f, reason)

TreeNext ==
  /\ \/ AttachTarget
     \/ DetachTarget
     \/ AttachFrame
     \/ DetachFrame
     \/ AttachNestedFrame
     \/ DetachNestedFrame
  /\ UNCHANGED <<transportVars, unsupported, swapVars, eventVars, inputVars,
                 navVars>>

TreeSpec == Init /\ [][TreeNext]_vars

\* Following parentId from `id` ends at a top-level context within n steps.
RECURSIVE HasRoot(_, _, _)
HasRoot(store, id, n) ==
  IF id \notin DOMAIN store THEN FALSE
  ELSE IF store[id].parentId = Null THEN TRUE
  ELSE IF n = 0 THEN FALSE
  ELSE HasRoot(store, store[id].parentId, n - 1)

\* Every parentId is null or the id of a stored context, and there is no
\* cycle.
IsTree(store) ==
  \A id \in DOMAIN store :
    /\ store[id].parentId # Null => store[id].parentId \in DOMAIN store
    /\ HasRoot(store, id, Cardinality(DOMAIN store))

\* C18: after every event the contexts form a tree (each parentId is null
\* or a stored context, no cycles), and a Page.frameAttached whose parent
\* is not a known context creates no context.
C18_ContextsFormTree ==
  [][/\ IsTree(contexts')
     /\ \A f \in AllFrameIds :
          (/\ frameParent[f] = Null
           /\ frameParent'[f] \in BrowserIds
           /\ frameParent'[f] \notin DOMAIN contexts)
          => contexts' = contexts]_vars

\* The frame F2 has attached inside F1 on a session the processor listens
\* to, when F1 was not a known context (its target had detached): there is
\* no context for F2.
C18_Witness ==
  /\ frameParent["F2"] = "F1"
  /\ frameParent["F1"] = "P1"
  /\ "P1" \in DOMAIN contexts
  /\ "F1" \notin DOMAIN contexts
  /\ "F2" \notin DOMAIN contexts

(***************************************************************************)
(* Part III.  script.addPreloadScript and script.removePreloadScript.       *)
(* Specification: PreloadSpec.                                              *)
(***************************************************************************)
NoSuchScript == "no such script"

\* An optional parameter: absent, or holding one value
Absent == << >>
Given(value) == <<value>>

\* The `arguments` of script.addPreloadScript: absent, empty, or not empty
ArgumentValues == {Absent, Given(<< >>), Given(<<"a">>)}

\* The result of a preload-script command: the id of the BiDi script and,
\* for a script.addPreloadScript that failed, the CDP scripts it had
\* installed.
ScriptResponse(method, context, status, script, cdpPreloadScripts) ==
  [method |-> method, context |-> context, status |-> status,
   script |-> script, cdpPreloadScripts |-> cdpPreloadScripts]

\* A mutant of argumentsRejected: an empty array is rejected as well.
argumentsRejected_WhenDefined(arguments) == arguments # Absent

\* process_script_addPreloadScript: `arguments` that are not supported
argumentsRejected(arguments) ==
  arguments # Absent /\ Len(arguments[1]) > 0

\* process_script_addPreloadScript: the set of targets of the command
preloadTargets(context) ==
  IF context = Null
    THEN {contexts[c].cdpTarget : c \in getTopLevelContexts}
    ELSE {contexts[context].cdpTarget}

\* The orders in which a set can be gone through
Orders(S) ==
  {seq \in [1..Cardinality(S) -> S] :
     \A i, j \in 1..Cardinality(S) : seq[i] = seq[j] => i = j}

\* The id PreloadScriptStorage gives the next record
NextScriptId == CHOOSE s \in ScriptIds \ issuedScripts : TRUE

\* process_script_addPreloadScript, up to its first await
ProcessAddPreloadScript(context, arguments) ==
  /\ turn' = [op |-> "script.addPreloadScript", id |-> context,
              arguments |-> arguments]
  /\ IF argumentsRejected(arguments)
       THEN /\ responses' = {ScriptResponse("script.addPreloadScript",
                               context, UnknownError, Null, << >>)}
            /\ UNCHANGED scriptVars
     ELSE IF context # Null /\ ~findContext(context)
       THEN /\ responses' = {ScriptResponse("script.addPreloadScript",
                               context, NoSuchFrame, Null, << >>)}
            /\ UNCHANGED scriptVars
     ELSE /\ ScriptIds \ issuedScripts # {}
          /\ issuedScripts' = issuedScripts \cup {NextScriptId}
          /\ UNCHANGED <<installed, cdpScriptIds>>
          /\ IF preloadTargets(context) = {}
               THEN /\ preloadScripts' = addPreloadScripts(preloadScripts,
                                           NextScriptId, context, << >>)
                    /\ responses' = {ScriptResponse(
                         "script.addPreloadScript", context, Success,
                         NextScriptId, << >>)}
                    /\ UNCHANGED scriptCalls
               ELSE /\ Len(scriptCalls) < MaxCalls
                    /\ \E targets \in Orders(preloadTargets(context)) :
                         scriptCalls' = Append(scriptCalls,
                           [method |-> "add", script |-> NextScriptId,
                            context |-> context, targets |-> targets,
                            cdpPreloadScripts |-> << >>])
                    /\ responses' = {}
                    /\ UNCHANGED preloadScripts
  /\ UNCHANGED realmVars
  /\ UNCHANGED <<browserTargets, frameParent, listeners, cdpTargets,
                 contexts, calls, closed>>

\* process_script_addPreloadScript, from the reply of a
\* Page.addScriptToEvaluateOnNewDocument: the browser has installed the
\* script under a new identifier, or, the target being gone, the command
\* has failed.
AddScriptReply(i, ok) ==
  /\ i \in 1..Len(scriptCalls)
  /\ scriptCalls[i].method = "add"
  /\ LET call == scriptCalls[i]
         target == call.targets[Len(call.cdpPreloadScripts) + 1]
         scripts == Append(call.cdpPreloadScripts,
                      CdpPreloadScript(target, cdpScriptIds[target] + 1))
     IN  /\ ok <=> browserTargets[target] = "attached"
         /\ IF ~ok
              THEN /\ responses' = {ScriptResponse(
                        "script.addPreloadScript", call.context,
                        UnknownError, call.script, call.cdpPreloadScripts)}
                   /\ scriptCalls' = RemoveAt(scriptCalls, i)
                   /\ UNCHANGED <<installed, cdpScriptIds, preloadScripts>>
              ELSE /\ installed' = installed \cup
                        {InstalledScript(target, call.script, 1)}
                   /\ cdpScriptIds' = [cdpScriptIds EXCEPT ![target] = @ + 1]
                   /\ IF Len(scripts) < Len(call.targets)
                        THEN /\ scriptCalls' = [scriptCalls EXCEPT
                                  ![i].cdpPreloadScripts = scripts]
                             /\ responses' = {}
                             /\ UNCHANGED preloadScripts
                        ELSE /\ preloadScripts' = addPreloadScripts(
                                  preloadScripts, call.script, call.context,
                                  scripts)
                             /\ scriptCalls' = RemoveAt(scriptCalls, i)
                             /\ responses' = {ScriptResponse(
                                  "script.addPreloadScript", call.context,
                                  Success, call.script, scripts)}
  /\ turn' = Reply
  /\ UNCHANGED realmVars
  /\ UNCHANGED <<browserTargets, frameParent, listeners, cdpTargets,
                 contexts, calls, closed, issuedScripts>>

\* The CDP scripts of a record, if it is still stored
RecordedScripts(storage, script) ==
  IF script \in DOMAIN storage THEN storage[script].cdpPreloadScripts
  ELSE << >>

\* A mutant of remainingScripts: the loop ends after its first script.
remainingScripts_FirstOnly(cdpPreloadScripts, done) ==
  IF done = {} THEN cdpPreloadScripts ELSE << >>

\* process_script_removePreloadScript: the CDP scripts of the record that
\* the loop has yet to remove
remainingScripts(cdpPreloadScripts, done) ==
  SelectSeq(cdpPreloadScripts, LAMBDA script : script \notin done)

\* process_script_removePreloadScript, up to its first await
ProcessRemovePreloadScript(script) ==
  /\ turn' = Turn("script.removePreloadScript", script)
  /\ IF script \notin DOMAIN preloadScripts
       THEN /\ responses' = {ScriptResponse("script.removePreloadScript",
                               Null, NoSuchScript, script, << >>)}
            /\ UNCHANGED <<preloadScripts, scriptCalls>>
     ELSE IF preloadScripts[script].cdpPreloadScripts = << >>
       THEN /\ preloadScripts' = removeBiDiPreloadScripts(preloadScripts,
                                                          script)
            /\ responses' = {ScriptResponse("script.removePreloadScript",
                               Null, Success, script, << >>)}
            /\ UNCHANGED scriptCalls
     ELSE /\ Len(scriptCalls) < MaxCalls
          /\ scriptCalls' = Append(scriptCalls,
               [method |-> "remove", script |-> script,
                awaiting |-> preloadScripts[script].cdpPreloadScripts[1],
                done |-> {}])
          /\ responses' = {}
          /\ UNCHANGED preloadScripts
  /\ UNCHANGED realmVars
  /\ UNCHANGED <<browserTargets, frameParent, listeners, cdpTargets,
                 contexts, calls, closed, installed, cdpScriptIds,
                 issuedScripts>>

\* process_script_removePreloadScript, from the reply of a
\* Page.removeScriptToEvaluateOnNewDocument: the browser has removed the
\* script from the target, or, not having it, the command has failed.
RemoveScriptReply(i, ok) ==
  /\ i \in 1..Len(scriptCalls)
  /\ scriptCalls[i].method = "remove"
  /\ LET call == scriptCalls[i]
         done == call.done \cup {call.awaiting}
         rest == remainingScripts(
                   RecordedScripts(preloadScripts, call.script), done)
     IN  /\ ok <=> \E script \in installed :
                     /\ script.target = call.awaiting.target
                     /\ script.preloadScriptId =
                          call.awaiting.preloadScriptId
         /\ IF ~ok
              THEN /\ responses' = {ScriptResponse(
                        "script.removePreloadScript", Null, UnknownError,
                        call.script, << >>)}
                   /\ scriptCalls' = RemoveAt(scriptCalls, i)
                   /\ UNCHANGED <<installed, preloadScripts>>
              ELSE /\ installed' =
                        {script \in installed :
                           \/ script.target # call.awaiting.target
                           \/ script.preloadScriptId #
                                call.awaiting.preloadScriptId}
                   /\ IF rest # << >>
                        THEN /\ scriptCalls' = [scriptCalls EXCEPT
                                  ![i].awaiting = rest[1], ![i].done = done]
                             /\ responses' = {}
                             /\ UNCHANGED preloadScripts
                        ELSE /\ preloadScripts' = removeBiDiPreloadScripts(
                                  preloadScripts, call.script)
                             /\ scriptCalls' = RemoveAt(scriptCalls, i)
                             /\ responses' = {ScriptResponse(
                                  "script.removePreloadScript", Null,
                                  Success, call.script, << >>)}
  /\ turn' = Reply
  /\ UNCHANGED realmVars
  /\ UNCHANGED <<browserTargets, frameParent, listeners, cdpTargets,
                 contexts, calls, closed, cdpScriptIds, issuedScripts>>

AddPreloadScript ==
  \E context \in NamedIds \cup {Null}, arguments \in ArgumentValues :
    ProcessAddPreloadScript(context, arguments)
AddReply == \E i \in 1..MaxCalls, ok \in BOOLEAN : AddScriptReply(i, ok)
RemovePreloadScript ==
  \E script \in ScriptIds : ProcessRemovePreloadScript(script)
RemoveReply ==
  \E i \in 1..MaxCalls, ok \in BOOLEAN : RemoveScriptReply(i, ok)

AttachPages == \E t \in PageIds : TargetAttached(t)
DetachPages == \E t \in PageIds : TargetDetached(t)

PreloadNext ==
  /\ \/ AttachPages
     \/ DetachPages
     \/ AddPreloadScript
     \/ AddReply
     \/ RemovePreloadScript
     \/ RemoveReply
  /\ UNCHANGED <<transportVars, unsupported, swapVars, eventVars, inputVars,
                 navVars>>

PreloadSpec == Init /\ [][PreloadNext]_vars

(***************************************************************************)
(* Part III: the properties.                                                 *)
(***************************************************************************)
AddResults == {r \in responses : r.method = "script.addPreloadScript"}
RemoveResults == {r \in responses : r.method = "script.removePreloadScript"}

\* The browser has the CDP script on its target, for the BiDi script.
InstalledAs(script, cdpPreloadScript) ==
  \E cdp \in installed :
    /\ cdp.target = cdpPreloadScript.target
    /\ cdp.preloadScriptId = cdpPreloadScript.preloadScriptId
    /\ cdp.script = script

\* The script is being removed.
Removing(script) ==
  \E i \in 1..Len(scriptCalls) :
    scriptCalls[i].method = "remove" /\ scriptCalls[i].script = script

\* The CDP scripts of a record that are scripts of a target
ScriptsOn(script, target) ==
  {i \in 1..Len(preloadScripts[script].cdpPreloadScripts) :
     preloadScripts[script].cdpPreloadScripts[i].target = target}

\* C12: while a preload script for all contexts is stored and is not being
\* removed, the target of every top-level context carries exactly one CDP
\* script that materializes it, with one pair in the record.
C12_GlobalScriptOnEveryTarget ==
  \A script \in DOMAIN preloadScripts :
    (preloadScripts[script].contextId = Null /\ ~Removing(script))
    => \A c \in getTopLevelContexts :
         /\ Cardinality(ScriptsOn(script, contexts[c].cdpTarget)) = 1
         /\ \A i \in ScriptsOn(script, contexts[c].cdpTarget) :
              InstalledAs(script,
                preloadScripts[script].cdpPreloadScripts[i])

\* C13: when script.removePreloadScript of a script returns, the record of
\* the script is deleted and no target carries a CDP script that
\* materializes it: the targets are as before the script was added.
C13_RemoveUndoesAdd ==
  \A r \in RemoveResults :
    r.status = Success
    => /\ r.script \notin DOMAIN preloadScripts
       /\ \A cdp \in installed : cdp.script # r.script

\* A script that was installed on two targets, one of them attached after
\* the script was added, has been removed.
C13_Witness ==
  /\ turn = Reply
  /\ \E r \in RemoveResults : r.status = Success
  /\ \A t \in PageIds :
       browserTargets[t] = "attached" /\ cdpScriptIds[t] = 1
  /\ installed = {}

\* C14: when script.addPreloadScript fails, no target carries a CDP script
\* that the command installed and there is no record of the script.
C14_NoPartialAdd ==
  \A r \in AddResults :
    r.status # Success
    => /\ r.script \notin DOMAIN preloadScripts
       /\ \A cdp \in installed : cdp.script # r.script

\* C15: script.addPreloadScript with `arguments` that are not empty fails,
\* sends no command to any target and stores no record; with `arguments`
\* absent or empty it does not fail for its arguments.
C15_ArgumentsNotSupported ==
  [][\A context \in NamedIds \cup {Null}, arguments \in ArgumentValues :
       turn' = [op |-> "script.addPreloadScript", id |-> context,
                arguments |-> arguments]
       => IF arguments = Given(<<"a">>)
            THEN /\ \E r \in responses' : r.status # Success
                 /\ UNCHANGED scriptVars
            ELSE \A r \in responses' :
                   r.status # Success
                   => r.status = NoSuchFrame /\ ~findContext(context)]_vars

\* A script.addPreloadScript with arguments has failed while a page was
\* attached, and one with an empty array has been accepted before.
C15_Witness ==
  /\ turn = [op |-> "script.addPreloadScript", id |-> Null,
             arguments |-> Given(<<"a">>)]
  /\ \E r \in AddResults : r.status = UnknownError
  /\ getTopLevelContexts # {}
  /\ issuedScripts # {}

(***************************************************************************)
(* Part IV.  Realms and handles: script.evaluate and script.disown.          *)
(* Specification: RealmSpec.                                                *)
(***************************************************************************)
\* The page and the frame that have realms, the resultOwnership of an
\* evaluation and the handles of a script.disown: object ids the browser
\* has given out, which a client cannot guess before, or a string that is
\* no object id
RealmTargets == {"P1", "F1"}
ResultOwnerships == {"root", "none"}
NoHandle == "h0"
HandleLists == {<<"h1">>, <<"h1", "h1">>, <<"h1", "h2">>, <<NoHandle>>}

\* The elements of a sequence
Range(seq) == {seq[i] : i \in 1..Len(seq)}

\* Script.Target: a realm or a context
RealmTarget(realm) == [kind |-> "realm", id |-> realm]
ContextTarget(context) == [kind |-> "context", id |-> context]
ScriptTargets ==
  {RealmTarget(r) : r \in RealmIds}

\* The result of a script command
RealmResponse(method, target, status, realm, handles) ==
  [method |-> method, target |-> target, status |-> status, realm |-> realm,
   handles |-> handles]

\* A script command that awaits the reply to a CDP command of its realm
RealmCall(method, target, realm, resultOwnership, asked, handles) ==
  [method |-> method, target |-> target, realm |-> realm,
   session |-> realmMap[realm].cdpSessionId,
   resultOwnership |-> resultOwnership, asked |-> asked,
   handles |-> handles, failed |-> FALSE]

\* The target whose process holds the document of a page or a frame
HostTarget(id) ==
  IF id \in FrameIds /\ browserTargets[id] # "attached"
    THEN frameParent[id] ELSE id

\* The ids the browser gives the next execution context and the next object
NextRealmId ==
  CHOOSE r \in RealmIds : executionContexts[r].state = "new"
NextHandle == CHOOSE h \in Handles : objects[h].state = "new"

\* Runtime.executionContextCreated: the browser makes an execution context
\* for the document of a page or a frame, and the context of the frame, if
\* it is stored with the target of the event, makes a realm of it.
ExecutionContextCreated(frameId) ==
  /\ \E r \in RealmIds : executionContexts[r].state = "new"
  /\ IF frameId \in FrameIds
       THEN /\ frameParent[frameId] \in TargetIds
            /\ browserTargets[frameId] # "detaching"
       ELSE TRUE
  /\ browserTargets[HostTarget(frameId)] = "attached"
  /\ LET target == HostTarget(frameId)
         realmId == NextRealmId
     IN  /\ executionContexts' =
              [executionContexts EXCEPT ![realmId] =
                 [frame |-> frameId, target |-> target, state |-> "live"]]
         /\ realmMap' =
              IF /\ SessionOf(target) \in listeners
                 /\ findContext(frameId)
                 /\ contexts[frameId].cdpTarget = target
                THEN addRealm(realmMap, realmId, Realm(frameId, target))
                ELSE realmMap
  /\ turn' = Event
  /\ responses' = {}
  /\ UNCHANGED <<objects, knownHandlesToRealm, realmCalls, releases>>
  /\ UNCHANGED <<browserTargets, frameParent, listeners, cdpTargets, contexts,
                 calls, closed>>
  /\ UNCHANGED scriptVars

\* Runtime.executionContextDestroyed: the browser destroys an execution
\* context, and its realm and the handles of the realm leave the storage.
ExecutionContextDestroyed(realmId) ==
  /\ realmId \in LiveContexts
  /\ SessionOpen(executionContexts[realmId].target)
  /\ DestroyContexts({realmId})
  /\ IF SessionOf(executionContexts[realmId].target) \in listeners
       THEN /\ realmMap' = deleteRealms(realmMap, {realmId})
            /\ knownHandlesToRealm' =
                 purgeHandles(knownHandlesToRealm, {realmId})
       ELSE UNCHANGED <<realmMap, knownHandlesToRealm>>
  /\ turn' = Event
  /\ responses' = {}
  /\ UNCHANGED <<realmCalls, releases>>
  /\ UNCHANGED <<browserTargets, frameParent, listeners, cdpTargets, contexts,
                 calls, closed>>
  /\ UNCHANGED scriptVars

\* Page.frameDetached with reason `remove` for a frame whose document is
\* in a process of its own: the event arrives on the session of the parent
\* while the session of the frame's target is still open.
OopifFrameDetached(frameId) ==
  /\ frameParent[frameId] \in TargetIds
  /\ browserTargets[frameId] = "attached"
  /\ HostedFrames(frameId) = {}
  /\ browserTargets' = [browserTargets EXCEPT ![frameId] = "detaching"]
  /\ LET store == IF HostSession(frameParent[frameId]) \in listeners
                    THEN handleFrameDetachedEvent(contexts, frameId, "remove")
                    ELSE contexts
     IN  /\ contexts' = store
         /\ CascadeDelete(contexts, store)
  /\ turn' = Event
  /\ responses' = {}
  /\ UNCHANGED <<executionContexts, objects, realmCalls, releases>>
  /\ UNCHANGED <<frameParent, listeners, cdpTargets, calls, closed>>
  /\ UNCHANGED scriptVars

\* RealmStorage.getRealm and BrowsingContextImpl.getOrCreateSandbox: the
\* one realm that matches
findRealm(realmIds) ==
  IF realmIds = {} THEN [status |-> NoSuchRealm, realm |-> Null]
  ELSE IF Cardinality(realmIds) > 1
    THEN [status |-> UnknownError, realm |-> Null]
  ELSE [status |-> Success, realm |-> CHOOSE r \in realmIds : TRUE]

\* #getRealm: the realm of a script target
getRealm(target) ==
  IF target.kind = "realm"
    THEN findRealm({target.id} \cap DOMAIN realmMap)
  ELSE IF ~findContext(target.id)
    THEN [status |-> NoSuchFrame, realm |-> Null]
  ELSE findRealm({r \in DOMAIN realmMap :
                    realmMap[r].browsingContextId = target.id})

\* A mutant of resultOwnershipOf: the default is `root`.
resultOwnershipOf_DefaultRoot(resultOwnership) ==
  IF resultOwnership = Absent THEN "root" ELSE resultOwnership[1]

\* process_script_evaluate: params.resultOwnership ?? 'none'
resultOwnershipOf(resultOwnership) ==
  IF resultOwnership = Absent THEN "none" ELSE resultOwnership[1]

\* process_script_evaluate and Realm.scriptEvaluate, up to the await of
\* the reply to Runtime.evaluate
ProcessEvaluate(target, resultOwnership) ==
  /\ Len(realmCalls) < MaxCalls
  /\ Cardinality({h \in Handles : objects[h].state = "new"}) >
       Cardinality({i \in 1..Len(realmCalls) :
                      realmCalls[i].method = "evaluate"})
  /\ turn' = [op |-> "script.evaluate", target |-> target,
              resultOwnership |-> resultOwnership]
  /\ LET found == getRealm(target)
     IN  IF found.status # Success
           THEN /\ responses' = {RealmResponse("script.evaluate", target,
                                   found.status, Null, << >>)}
                /\ UNCHANGED realmCalls
         ELSE IF ~findContext(realmMap[found.realm].browsingContextId)
           THEN /\ responses' = {RealmResponse("script.evaluate", target,
                                   NoSuchFrame, found.realm, << >>)}
                /\ UNCHANGED realmCalls
         ELSE /\ responses' = {}
              /\ realmCalls' =
                   Append(realmCalls,
                     RealmCall("evaluate", target, found.realm,
                               resultOwnershipOf(resultOwnership),
                               << >>, << >>))
  /\ UNCHANGED <<executionContexts, objects, realmMap, knownHandlesToRealm,
                 releases>>
  /\ UNCHANGED <<browserTargets, frameParent, listeners, cdpTargets, contexts,
                 calls, closed>>
  /\ UNCHANGED scriptVars

\* The result of Runtime.evaluate: an object, with its objectId, or a
\* value that has none
NoObjectId == "none"

\* A mutant of cdpToBidiValue: the handle is recorded whatever the
\* resultOwnership.
cdpToBidiValue_AnyOwnership(handles, objectId, realmId, resultOwnership) ==
  IF objectId # NoObjectId
    THEN [h \in DOMAIN handles \cup {objectId} |->
            IF h = objectId THEN realmId ELSE handles[h]]
    ELSE handles

\* Realm.cdpToBidiValue: knownHandlesToRealm.set(objectId, this.realmId)
\* when the result has an objectId and the resultOwnership is `root`
cdpToBidiValue(handles, objectId, realmId, resultOwnership) ==
  IF objectId # NoObjectId /\ resultOwnership = "root"
    THEN [h \in DOMAIN handles \cup {objectId} |->
            IF h = objectId THEN realmId ELSE handles[h]]
    ELSE handles

\* Realm.cdpToBidiValue: the handle of the BiDi value it returns
bidiValueHandle(objectId, resultOwnership) ==
  IF objectId # NoObjectId /\ resultOwnership = "root"
    THEN <<objectId>> ELSE << >>

\* Realm.cdpToBidiValue: the Runtime.releaseObject it sends without
\* awaiting it
releasedByValue(session, objectId, resultOwnership) ==
  IF objectId # NoObjectId /\ resultOwnership # "root"
    THEN {[session |-> session, handle |-> objectId]} ELSE {}

\* The reply to Runtime.evaluate: the session is open and the execution
\* context exists, and the result is a new object or a value that is no
\* object, or the command fails.
EvaluateReplied(i, isObject) ==
  /\ i \in 1..Len(realmCalls)
  /\ realmCalls[i].method = "evaluate"
  /\ LET call == realmCalls[i]
         objectId == IF isObject THEN NextHandle ELSE NoObjectId
     IN  IF SessionOpen(call.session) /\ call.realm \in LiveContexts
           THEN /\ objects' =
                     IF isObject
                       THEN [objects EXCEPT ![objectId] =
                               [context |-> call.realm, state |-> "live"]]
                       ELSE objects
                /\ knownHandlesToRealm' =
                     cdpToBidiValue(knownHandlesToRealm, objectId,
                                    call.realm, call.resultOwnership)
                /\ releases' = releases \cup
                     releasedByValue(call.session, objectId,
                                     call.resultOwnership)
                /\ responses' =
                     {RealmResponse("script.evaluate", call.target, Success,
                        call.realm,
                        bidiValueHandle(objectId, call.resultOwnership))}
                /\ turn' = [op |-> "reply", id |-> Null,
                            objectId |-> objectId,
                            resultOwnership |-> call.resultOwnership]
           ELSE /\ responses' =
                     {RealmResponse("script.evaluate", call.target,
                        UnknownError, call.realm, << >>)}
                /\ turn' = Reply
                /\ UNCHANGED <<objects, knownHandlesToRealm, releases>>
  /\ realmCalls' = RemoveAt(realmCalls, i)
  /\ UNCHANGED <<executionContexts, realmMap>>
  /\ UNCHANGED <<browserTargets, frameParent, listeners, cdpTargets, contexts,
                 calls, closed>>
  /\ UNCHANGED scriptVars

\* A mutant of disownSends: the realm of the handle is not looked at.
disownSends_AnyRealm(handles, handle, realmId) == handle \in DOMAIN handles

\* Realm.disown: the handle is released when it is recorded for the realm.
disownSends(handles, handle, realmId) ==
  handle \in DOMAIN handles /\ handles[handle] = realmId

\* process_script_disown: Realm.disown of every handle, up to the await of
\* the replies to Runtime.releaseObject
ProcessDisown(target, handles) ==
  /\ Len(realmCalls) < MaxCalls
  /\ \A h \in Range(handles) : h \in Handles => objects[h].state # "new"
  /\ turn' = [op |-> "script.disown", target |-> target,
              handles |-> handles]
  /\ LET found == getRealm(target)
         released == IF found.status = Success
                   THEN SelectSeq(handles, LAMBDA h :
                          disownSends(knownHandlesToRealm, h, found.realm))
                   ELSE << >>
     IN  IF found.status # Success
           THEN /\ responses' = {RealmResponse("script.disown", target,
                                   found.status, Null, handles)}
                /\ UNCHANGED realmCalls
         ELSE IF released = << >>
           THEN /\ responses' = {RealmResponse("script.disown", target,
                                   Success, found.realm, handles)}
                /\ UNCHANGED realmCalls
         ELSE /\ responses' = {}
              /\ realmCalls' =
                   Append(realmCalls,
                     RealmCall("disown", target, found.realm, Null,
                               handles, released))
  /\ UNCHANGED <<executionContexts, objects, realmMap, knownHandlesToRealm,
                 releases>>
  /\ UNCHANGED <<browserTargets, frameParent, listeners, cdpTargets, contexts,
                 calls, closed>>
  /\ UNCHANGED scriptVars

\* The browser answers Runtime.releaseObject.
releaseObject(session, handle) ==
  IF ~SessionOpen(session) THEN "session closed"
  ELSE IF handle \in LiveObjects THEN "released"
  ELSE "Invalid remote object id"

\* A mutant of releaseObjectReturns: the error of an unknown object is
\* thrown as the others are.
releaseObjectReturns_NoHeuristic(answer) == answer = "released"

\* Realm.#releaseObject returns, when the object was released or the error
\* is `Invalid remote object id`, and throws any other error.
releaseObjectReturns(answer) ==
  answer \in {"released", "Invalid remote object id"}

\* Realm.disown after the reply to Runtime.releaseObject, and the
\* Promise.all of process_script_disown: it resolves when every disown
\* has returned and rejects when the first one throws.
ReleaseReplied(i) ==
  /\ i \in 1..Len(realmCalls)
  /\ realmCalls[i].method = "disown"
  /\ LET call == realmCalls[i]
         handle == Head(call.handles)
         answer == releaseObject(call.session, handle)
         returns == releaseObjectReturns(answer)
         rest == Tail(call.handles)
     IN  /\ objects' = IF answer = "released"
                         THEN [objects EXCEPT ![handle].state = "released"]
                         ELSE objects
         /\ knownHandlesToRealm' =
              IF returns
                THEN [h \in DOMAIN knownHandlesToRealm \ {handle} |->
                        knownHandlesToRealm[h]]
                ELSE knownHandlesToRealm
         /\ responses' =
              IF ~returns /\ ~call.failed
                THEN {RealmResponse("script.disown", call.target,
                        UnknownError, call.realm, call.asked)}
              ELSE IF returns /\ ~call.failed /\ rest = << >>
                THEN {RealmResponse("script.disown", call.target, Success,
                        call.realm, call.asked)}
              ELSE {}
         /\ realmCalls' =
              IF rest = << >> THEN RemoveAt(realmCalls, i)
              ELSE [realmCalls EXCEPT
                      ![i].handles = rest,
                      ![i].failed = call.failed \/ ~returns]
  /\ turn' = Reply
  /\ UNCHANGED <<executionContexts, realmMap, releases>>
  /\ UNCHANGED <<browserTargets, frameParent, listeners, cdpTargets, contexts,
                 calls, closed>>
  /\ UNCHANGED scriptVars

\* The browser answers a Runtime.releaseObject that cdpToBidiValue sent
\* without awaiting it; #releaseObject returns or throws, and what it
\* throws is logged.
ReleaseSettled(release) ==
  /\ release \in releases
  /\ releases' = releases \ {release}
  /\ objects' =
       IF releaseObject(release.session, release.handle) = "released"
         THEN [objects EXCEPT ![release.handle].state = "released"]
         ELSE objects
  /\ turn' = [op |-> "released", id |-> Null,
              answer |-> releaseObject(release.session, release.handle)]
  /\ responses' = {}
  /\ UNCHANGED <<executionContexts, realmMap, knownHandlesToRealm, realmCalls>>
  /\ UNCHANGED <<browserTargets, frameParent, listeners, cdpTargets, contexts,
                 calls, closed>>
  /\ UNCHANGED scriptVars

AttachRealmTarget == \E t \in RealmTargets : TargetAttached(t)
DetachRealmTarget == \E t \in RealmTargets : TargetDetached(t)
AttachRealmFrame == FrameAttached("F1", "P1")
DetachRealmFrame ==
  \/ FrameDetached("F1", "remove")
  \/ OopifFrameDetached("F1")
ContextCreated == \E f \in RealmTargets : ExecutionContextCreated(f)
ContextDestroyed == \E r \in RealmIds : ExecutionContextDestroyed(r)
Evaluate ==
  \E target \in ScriptTargets : ProcessEvaluate(target, Given("root"))
EvaluateReply == \E i \in 1..MaxCalls : EvaluateReplied(i, TRUE)
Disown ==
  \E target \in ScriptTargets, handles \in HandleLists :
    ProcessDisown(target, handles)
ReleaseReply == \E i \in 1..MaxCalls : ReleaseReplied(i)
ReleaseSettles == \E release \in releases : ReleaseSettled(release)

\* The evaluations that keep their result, which are the ones that record
\* a handle; the others are left to EvaluateSpec.
RealmNext ==
  /\ \/ AttachRealmTarget
     \/ DetachRealmTarget
     \/ AttachRealmFrame
     \/ DetachRealmFrame
     \/ ContextCreated
     \/ ContextDestroyed
     \/ Evaluate
     \/ EvaluateReply
     \/ Disown
     \/ ReleaseReply
  /\ UNCHANGED <<transportVars, unsupported, swapVars, eventVars, inputVars,
                 navVars>>

RealmSpec == Init /\ [][RealmNext]_vars

(***************************************************************************)
(* Part IV: the properties.                                                  *)
(***************************************************************************)
DisownResults == {r \in responses : r.method = "script.disown"}

\* The handle is recorded for the realm.
RecordedFor(handle, realmId) ==
  handle \in DOMAIN knownHandlesToRealm
    /\ knownHandlesToRealm[handle] = realmId

\* C16: every handle in knownHandlesToRealm is recorded for a realm that is
\* in the RealmStorage, also when the realm was destroyed while an
\* evaluation with resultOwnership `root` awaited its reply.
C16_HandlesReferToRealms ==
  \A h \in DOMAIN knownHandlesToRealm :
    knownHandlesToRealm[h] \in DOMAIN realmMap

\* C17: after every turn, the browsingContextId of every realm in the
\* RealmStorage is the id of a context in the BrowsingContextStorage.
C17_RealmsReferToContexts ==
  \A r \in DOMAIN realmMap : findContext(realmMap[r].browsingContextId)

\* The context of a frame has been deleted with its realm, whose execution
\* context the browser still has, and the realm of another context stays.
C17_Witness ==
  /\ turn = Event
  /\ ~findContext("F1")
  /\ \E r \in LiveContexts :
       executionContexts[r].frame = "F1" /\ r \notin DOMAIN realmMap
  /\ \E r \in DOMAIN realmMap : realmMap[r].browsingContextId = "P1"

\* C19: a script.disown that finds its realm changes no handle record,
\* sends no Runtime.releaseObject for a handle that is not recorded for
\* the realm, and succeeds at once when none of its handles is.
C19_DisownOfForeignHandle ==
  [][turn'.op = "script.disown"
     => LET found == getRealm(turn'.target)
            foreign == {h \in Range(turn'.handles) :
                          ~RecordedFor(h, found.realm)}
        IN  found.status = Success
            => /\ knownHandlesToRealm' = knownHandlesToRealm
               /\ objects' = objects
               /\ \A i \in 1..Len(realmCalls') :
                    (i > Len(realmCalls) \/ realmCalls'[i] # realmCalls[i])
                    => Range(realmCalls'[i].handles) \cap foreign = {}
               /\ foreign = Range(turn'.handles)
                  => /\ realmCalls' = realmCalls
                     /\ \E r \in responses' :
                          r.method = "script.disown" /\ r.status = Success
     ]_vars

\* A script.disown on one realm of a handle recorded for another realm
\* has succeeded, and the handle is still recorded.
C19_Witness ==
  /\ turn.op = "script.disown"
  /\ \E r \in DisownResults :
       /\ r.status = Success
       /\ \E h \in Range(r.handles) :
            /\ h \in DOMAIN knownHandlesToRealm
            /\ knownHandlesToRealm[h] # r.realm
            /\ h \in LiveObjects

ContextCommands ==
  {"browsingContext.navigate", "browsingContext.reload",
   "browsingContext.captureScreenshot", "browsingContext.print",
   "script.getRealms", "script.callFunction", "input.performActions",
   "input.releaseActions", "cdp.getSession"}

\* The command has passed its lookup and is with its context.
Delegated == "delegated"

\* A mutant of contextCommandError: the context is not looked up.
contextCommandError_NoLookup(context) == Delegated

\* BrowsingContextStorage.getContext(params.context), the first statement
\* of the handler: the error it throws, or Delegated
contextCommandError(context) ==
  IF ~findContext(context) THEN NoSuchFrame ELSE Delegated

\* process_browsingContext_navigate, _reload, _captureScreenshot, _print,
\* process_script_getRealms, process_script_callFunction,
\* process_input_performActions, _releaseActions, process_cdp_getSession
ProcessContextCommand(method, context) ==
  /\ turn' = Turn(method, context)
  /\ responses' = {Response(method, context, contextCommandError(context))}
  /\ UNCHANGED <<browserTargets, frameParent, listeners, cdpTargets, contexts,
                 calls, closed>>
  /\ UNCHANGED <<scriptVars, realmVars>>

AttachPage == TargetAttached("P1")
DetachPage == TargetDetached("P1")
PageContextCreated == ExecutionContextCreated("P1")
ContextCommand ==
  \E method \in ContextCommands, context \in NamedIds :
    ProcessContextCommand(method, context)
GetTreeOf == \E root \in NamedIds : ProcessGetTree(root)
CreateBy == \E ref \in NamedIds : ProcessCreate(ref)
AddPreloadScriptTo ==
  \E context \in NamedIds, arguments \in ArgumentValues :
    ProcessAddPreloadScript(context, arguments)
EvaluateInContext ==
  \E context \in NamedIds :
    ProcessEvaluate(ContextTarget(context), Given("root"))
DisownInContext ==
  \E context \in NamedIds :
    ProcessDisown(ContextTarget(context), <<NoHandle>>)

\* The events that store and delete the context of a page, the commands
\* that name a context and the replies that end them
CommandNext ==
  /\ \/ AttachPage
     \/ DetachPage
     \/ PageContextCreated
     \/ ContextCommand
     \/ GetTreeOf
     \/ CreateBy
     \/ CloseContext
     \/ AddPreloadScriptTo
     \/ EvaluateInContext
     \/ DisownInContext
     \/ CloseReply
     \/ EvaluateReply
  /\ UNCHANGED <<transportVars, unsupported, swapVars, eventVars, inputVars,
                 navVars>>

CommandSpec == Init /\ [][CommandNext]_vars

(***************************************************************************)
(* Part V: the properties.                                                   *)
(***************************************************************************)
\* The context that the command of a turn names, or Null
NamedContext(t) ==
  IF t.op \in {"script.evaluate", "script.disown"}
    THEN IF t.target.kind = "context" THEN t.target.id ELSE Null
  ELSE IF t.op \in {"start", "event", "reply", "script.removePreloadScript"}
    THEN Null
  ELSE t.id

\* The turn sends no CDP command and changes nothing that is stored.
NothingDone ==
  /\ UNCHANGED <<browserTargets, frameParent, listeners, cdpTargets, contexts,
                 calls, closed>>
  /\ UNCHANGED <<scriptVars, realmVars>>

\* The command of the turn has `arguments` that are not empty.
HasArguments(t) ==
  t.op = "script.addPreloadScript" /\ t.arguments \notin {Absent, Given(<< >>)}

\* C11, as stated: every command that names a context that is not in the
\* storage fails with `no such frame`, sends no CDP command and changes
\* nothing that is stored.
C11_UnknownContextIsNoSuchFrame ==
  [][(NamedContext(turn') # Null /\ ~findContext(NamedContext(turn')))
     => /\ \E r \in responses' : r.status = NoSuchFrame
        /\ NothingDone]_vars

\* C11, amended: every command that names a context that is not in the
\* storage fails, sends no CDP command and changes nothing that is
\* stored; it fails with `no such frame`, but for a
\* script.addPreloadScript with `arguments` that are not empty, which
\* fails for its arguments before it looks the context up.
C11_UnknownContextRejected ==
  [][(NamedContext(turn') # Null /\ ~findContext(NamedContext(turn')))
     => /\ \E r \in responses' :
             r.status = IF HasArguments(turn') THEN UnknownError
                        ELSE NoSuchFrame
        /\ NothingDone]_vars

\* While the context of a page is stored and commands are in flight, a
\* script.evaluate in a context that is not stored has failed.
C11_Witness ==
  /\ turn.op = "script.evaluate"
  /\ NamedContext(turn) = "F1"
  /\ ~findContext("F1")
  /\ findContext("P1")
  /\ calls # << >>
  /\ \E r \in responses : r.status = NoSuchFrame

(***************************************************************************)
(* Part VI.  script.evaluate and the ownership of its result.                *)
(* Specification: EvaluateSpec.                                             *)
(***************************************************************************)
\* The resultOwnership of a script.evaluate: absent, `root` or `none`
OwnershipValues == {Absent} \cup {Given(o) : o \in ResultOwnerships}

EvaluateInPage ==
  \E target \in {RealmTarget("R1"), ContextTarget("P1")},
     resultOwnership \in OwnershipValues :
    ProcessEvaluate(target, resultOwnership)
EvaluateAnswered ==
  \E i \in 1..MaxCalls, isObject \in BOOLEAN : EvaluateReplied(i, isObject)

EvaluateNext ==
  /\ \/ AttachPage
     \/ DetachPage
     \/ PageContextCreated
     \/ ContextDestroyed
     \/ EvaluateInPage
     \/ EvaluateAnswered
     \/ ReleaseSettles
  /\ UNCHANGED <<transportVars, unsupported, swapVars, eventVars, inputVars,
                 navVars>>

EvaluateSpec == Init /\ [][EvaluateNext]_vars

(***************************************************************************)
(* Part VI: the properties.                                                  *)
(***************************************************************************)
\* The turn is a reply to Runtime.evaluate that carries a result.
IsEvaluateResult(t) == t.op = "reply" /\ "objectId" \in DOMAIN t

\* The handles with the handle recorded for the realm
WithHandle(handles, handle, realmId) ==
  [h \in DOMAIN handles \cup {handle} |->
     IF h = handle THEN realmId ELSE handles[h]]

\* C21: a script.evaluate runs with the resultOwnership it was given, and
\* with `none` when it was given none.  Its result carries a handle, which
\* is recorded for its realm, exactly when the CDP result has an objectId
\* and the resultOwnership is `root`; otherwise nothing is recorded and,
\* when there is an objectId, one Runtime.releaseObject of it is sent on
\* the session of the realm, the command returning in the same turn.  The
\* answer to that release, an error included, ends no command and changes
\* no record.
C21_HandleIffRootOwnership ==
  [][/\ turn'.op = "script.evaluate"
        => \A i \in 1..Len(realmCalls') :
             i > Len(realmCalls)
             => realmCalls'[i].resultOwnership =
                  (IF turn'.resultOwnership = Given("root")
                     THEN "root" ELSE "none")
     /\ IsEvaluateResult(turn')
        => \A r \in responses' :
             /\ r.status = Success
             /\ IF turn'.objectId # NoObjectId
                   /\ turn'.resultOwnership = "root"
                  THEN /\ r.handles = <<turn'.objectId>>
                       /\ knownHandlesToRealm' =
                            WithHandle(knownHandlesToRealm, turn'.objectId,
                                       r.realm)
                       /\ releases' = releases
                  ELSE /\ r.handles = << >>
                       /\ knownHandlesToRealm' = knownHandlesToRealm
                       /\ releases' = releases \cup
                            (IF turn'.objectId = NoObjectId THEN {}
                             ELSE {[session |-> realmMap[r.realm].cdpSessionId,
                                    handle |-> turn'.objectId]})
     /\ turn'.op = "released"
        => /\ responses' = {}
           /\ UNCHANGED <<realmCalls, knownHandlesToRealm, realmMap>>
    ]_vars

\* A script.evaluate without resultOwnership has returned an object
\* without a handle; the release of the object has failed since, its
\* session being closed, while another evaluation is pending.
C21_Witness ==
  /\ turn.op = "released"
  /\ turn.answer = "session closed"
  /\ knownHandlesToRealm = << >>
  /\ realmCalls # << >>

(***************************************************************************)
(* Part VII.  input.performActions and input.releaseActions.                 *)
(* Specification: InputSpec, and TickSpec for the decomposition into ticks. *)
(***************************************************************************)
\* The number of undo actions an InputState may hold.
MaxUndo == 2

\* The elements of a sequence, last first
Reverse(seq) == [i \in 1..Len(seq) |-> seq[Len(seq) + 1 - i]]

\* The greater of two numbers
Max(a, b) == IF a >= b THEN a ELSE b

\* Input.SourceActions: the actions of one input source.  `parameters` is
\* the pointerType of a pointer source, which may be absent.
SourceActions(type, id, parameters, actions) ==
  [type |-> type, id |-> id, parameters |-> parameters, actions |-> actions]

\* ActionOption: an action and the id of its source
ActionOption(id, action) == [id |-> id, action |-> action]

\* The actions that wait and send nothing to the browser
Pauses == {"pause1", "pause2", "pause3"}

\* The action that undoes an action
InverseOf(action) ==
  CASE action = "keyDownA" -> "keyUpA"
    [] action = "keyDownB" -> "keyUpB"
    [] action = "pointerDown" -> "pointerUp"
    [] OTHER -> action

\* new InputState()
NewInputState == [sources |-> << >>, cancelList |-> << >>]

\* InputStateManager.get: the InputState of a top-level context, which is
\* created when there is none
getInputState(states, top) ==
  IF top \in DOMAIN states THEN states[top] ELSE NewInputState

\* InputStateManager: the states with the state of a top-level context set
setInputState(states, top, state) ==
  [t \in DOMAIN states \cup {top} |-> IF t = top THEN state ELSE states[t]]

\* InputStateManager.delete
deleteInputState(states, top) ==
  [t \in DOMAIN states \ {top} |-> states[t]]

\* InputState.getOrCreate: the sources, with the source of the id created
\* when there is none
getOrCreate(sources, id, type, subtype) ==
  IF id \in DOMAIN sources THEN sources
  ELSE [k \in DOMAIN sources \cup {id} |->
          IF k = id THEN [type |-> type, subtype |-> subtype]
          ELSE sources[k]]

\* #getActionsByTick: action.parameters.pointerType ??= mouse
pointerTypeOf(parameters) ==
  IF parameters = Absent THEN "mouse" ELSE parameters[1]

\* A mutant of subtypeMismatch: the subtype of the source is not compared.
subtypeMismatch_Never(source, pointerType) == FALSE

\* #getActionsByTick: source.subtype !== action.parameters.pointerType
subtypeMismatch(source, pointerType) == source.subtype # pointerType

\* A mutant of tagged: the action is not tagged with the id of its source.
tagged_NoId(id, item) == ActionOption(Null, item)

\* #getActionsByTick: {id: action.id, action: item}
tagged(id, item) == ActionOption(id, item)

\* #getActionsByTick: the loop that pushes the i-th action of a source to
\* the i-th tick, which it adds when there is none
RECURSIVE PushActions(_, _, _)
PushActions(actionsByTick, actions, i) ==
  IF i > Len(actions) THEN actionsByTick
  ELSE LET ticks == IF Len(actionsByTick) = i - 1
                      THEN Append(actionsByTick, << >>)
                      ELSE actionsByTick
       IN  PushActions([ticks EXCEPT ![i] = Append(@, actions[i])],
                       actions, i + 1)

\* #getActionsByTick, from the n-th source on: whether it throws, the
\* sources of the InputState after it and the ticks it returns
RECURSIVE getActionsByTick(_, _, _, _)
getActionsByTick(params, sources, actionsByTick, n) ==
  IF n > Len(params)
    THEN [threw |-> FALSE, sources |-> sources,
          actionsByTick |-> actionsByTick]
  ELSE LET action == params[n]
           pointerType == pointerTypeOf(action.parameters)
           created == IF action.type = "pointer"
                        THEN getOrCreate(sources, action.id, "pointer",
                                         pointerType)
                        ELSE getOrCreate(sources, action.id, action.type,
                                         Null)
           actions == [i \in 1..Len(action.actions) |->
                         tagged(action.id, action.actions[i])]
       IN  IF /\ action.type = "pointer"
              /\ subtypeMismatch(created[action.id], pointerType)
             THEN [threw |-> TRUE, sources |-> created,
                   actionsByTick |-> << >>]
             ELSE getActionsByTick(params, created,
                    PushActions(actionsByTick, actions, 1), n + 1)

\* A pending input command: the ticks its dispatcher has yet to dispatch
InputCall(method, context, top, ticks) ==
  [method |-> method, context |-> context, top |-> top, ticks |-> ticks]

\* The actions of a tick that are sent to the browser
Acted(tick) == SelectSeq(tick, LAMBDA option : option.action \notin Pauses)

\* The number of actions of the sources that are sent to the browser
RECURSIVE ActedCount(_)
ActedCount(params) ==
  IF params = << >> THEN 0
  ELSE Len(SelectSeq(Head(params).actions, LAMBDA a : a \notin Pauses))
       + ActedCount(Tail(params))

\* The record of the first use of pointer source ids, with the uses of a
\* command added
FirstUses(uses, top, sources) ==
  uses \cup
    {[top |-> top, id |-> id, subtype |-> sources[id].subtype] :
       id \in {k \in DOMAIN sources :
                 /\ sources[k].type = "pointer"
                 /\ ~\E u \in uses : u.top = top /\ u.id = k}}

\* A mutant of topContext: the InputState is that of the context itself.
topContext_Self(store, context) == context

\* process_input_performActions and process_input_releaseActions:
\* context.top, the key of the InputState of the command
topContext(store, context) ==
  TopOf(store, context, Cardinality(DOMAIN store))

\* process_input_performActions, up to the await of the dispatcher.  The
\* client sends an input command when the one before has returned.
ProcessPerformActions(context, params) ==
  /\ inputCalls = << >>
  /\ turn' = [op |-> "input.performActions", id |-> context,
              actions |-> params]
  /\ dispatched' = << >>
  /\ IF ~findContext(context)
       THEN /\ responses' =
                 {Response("input.performActions", context, NoSuchFrame)}
            /\ UNCHANGED <<inputStates, inputCalls, firstUse>>
       ELSE LET top == topContext(contexts, context)
                inputState == getInputState(inputStates, top)
                r == getActionsByTick(params, inputState.sources, << >>, 1)
            IN  /\ Len(inputState.cancelList) + ActedCount(params) <= MaxUndo
                /\ inputStates' =
                     setInputState(inputStates, top,
                       [inputState EXCEPT !.sources = r.sources])
                /\ firstUse' = FirstUses(firstUse, top, r.sources)
                /\ IF r.threw
                     THEN /\ responses' =
                               {Response("input.performActions", context,
                                         InvalidArgument)}
                          /\ UNCHANGED inputCalls
                   ELSE IF r.actionsByTick = << >>
                     THEN /\ responses' =
                               {Response("input.performActions", context,
                                         Success)}
                          /\ UNCHANGED inputCalls
                   ELSE /\ responses' = {}
                        /\ inputCalls' =
                             <<InputCall("performActions", context, top,
                                         r.actionsByTick)>>
  /\ UNCHANGED performed
  /\ UNCHANGED <<browserTargets, frameParent, listeners, cdpTargets, contexts,
                 calls, closed>>
  /\ UNCHANGED <<scriptVars, realmVars>>

\* ActionDispatcher.dispatchActions: the next tick of a performActions is
\* dispatched, and the undo action of each of its actions is put at the
\* head of the cancelList.
TickDispatched ==
  /\ inputCalls # << >>
  /\ inputCalls[1].method = "performActions"
  /\ LET call == inputCalls[1]
         acted == Acted(Head(call.ticks))
         undo == [i \in 1..Len(acted) |->
                    ActionOption(acted[i].id, InverseOf(acted[i].action))]
         inputState == getInputState(inputStates, call.top)
     IN  /\ dispatched' = acted
         /\ inputStates' =
              setInputState(inputStates, call.top,
                [inputState EXCEPT !.cancelList = Reverse(undo) \o @])
         /\ performed' =
              [t \in DOMAIN performed \cup {call.top} |->
                 IF t = call.top
                   THEN (IF t \in DOMAIN performed THEN performed[t]
                         ELSE << >>) \o acted
                   ELSE performed[t]]
         /\ IF Tail(call.ticks) = << >>
              THEN /\ inputCalls' = << >>
                   /\ responses' =
                        {Response("input.performActions", call.context,
                                  Success)}
              ELSE /\ inputCalls' =
                        <<[call EXCEPT !.ticks = Tail(call.ticks)]>>
                   /\ responses' = {}
  /\ turn' = Reply
  /\ UNCHANGED firstUse
  /\ UNCHANGED <<browserTargets, frameParent, listeners, cdpTargets, contexts,
                 calls, closed>>
  /\ UNCHANGED <<scriptVars, realmVars>>

\* A mutant of releaseOrder: the cancelList is dispatched as it is.
releaseOrder_AsListed(cancelList) == cancelList

\* process_input_releaseActions: inputState.cancelList.reverse()
releaseOrder(cancelList) == Reverse(cancelList)

\* process_input_releaseActions, up to the await of the dispatcher
ProcessReleaseActions(context) ==
  /\ inputCalls = << >>
  /\ turn' = Turn("input.releaseActions", context)
  /\ dispatched' = << >>
  /\ IF ~findContext(context)
       THEN /\ responses' =
                 {Response("input.releaseActions", context, NoSuchFrame)}
            /\ UNCHANGED <<inputStates, inputCalls>>
       ELSE LET top == topContext(contexts, context)
                inputState == getInputState(inputStates, top)
            IN  /\ inputStates' =
                     setInputState(inputStates, top,
                       [inputState EXCEPT
                          !.cancelList = releaseOrder(@)])
                /\ inputCalls' =
                     <<InputCall("releaseActions", context, top,
                                 <<releaseOrder(inputState.cancelList)>>)>>
                /\ responses' = {}
  /\ UNCHANGED <<performed, firstUse>>
  /\ UNCHANGED <<browserTargets, frameParent, listeners, cdpTargets, contexts,
                 calls, closed>>
  /\ UNCHANGED <<scriptVars, realmVars>>

\* ActionDispatcher.dispatchTickActions of a releaseActions: the undo
\* actions are dispatched as one tick, and the InputState is deleted.
ReleaseDispatched ==
  /\ inputCalls # << >>
  /\ inputCalls[1].method = "releaseActions"
  /\ LET call == inputCalls[1]
     IN  /\ dispatched' = Head(call.ticks)
         /\ inputStates' = deleteInputState(inputStates, call.top)
         /\ performed' = [t \in DOMAIN performed \ {call.top} |-> performed[t]]
         /\ responses' =
              {Response("input.releaseActions", call.context, Success)}
  /\ inputCalls' = << >>
  /\ turn' = Reply
  /\ UNCHANGED firstUse
  /\ UNCHANGED <<browserTargets, frameParent, listeners, cdpTargets, contexts,
                 calls, closed>>
  /\ UNCHANGED <<scriptVars, realmVars>>

\* The sources of the input commands: a key source, and a pointer source
\* with each pointerType or none
InputSources ==
  {SourceActions("key", "k", Absent, actions) :
     actions \in {<<"keyDownA">>, <<"keyDownA", "keyDownB">>}}
  \cup
  {SourceActions("pointer", "p", parameters, <<"pointerDown">>) :
     parameters \in {Absent, Given("mouse"), Given("touch")}}

InputParams ==
  {<<source>> : source \in InputSources}
  \cup {<<s1, s2>> : s1 \in InputSources, s2 \in InputSources}

InputContexts == {"P1", "F1"}

InputAttachPage == AttachPage /\ UNCHANGED inputVars
InputAttachFrame == AttachRealmFrame /\ UNCHANGED inputVars
PerformActions ==
  \E context \in InputContexts, params \in InputParams :
    ProcessPerformActions(context, params)
ReleaseActions ==
  \E context \in InputContexts : ProcessReleaseActions(context)

InputNext ==
  /\ \/ InputAttachPage
     \/ InputAttachFrame
     \/ PerformActions
     \/ TickDispatched
     \/ ReleaseActions
     \/ ReleaseDispatched
  /\ UNCHANGED <<transportVars, unsupported, swapVars, eventVars, navVars>>

InputSpec == Init /\ [][InputNext]_vars

(***************************************************************************)
(* Part VII: the properties.                                                 *)
(***************************************************************************)
\* The pointer subtype a source asks for: mouse when it names none
AskedSubtype(source) ==
  IF source.parameters = Absent THEN "mouse" ELSE source.parameters[1]

\* The top-level context of the context a turn names
TopOfTurn(t) == TopOf(contexts, t.id, Cardinality(DOMAIN contexts))

\* The command fails with `invalid argument`, and no action of it is or
\* will be dispatched.
FailsBeforeDispatch ==
  /\ responses' = {Response("input.performActions", turn'.id, InvalidArgument)}
  /\ dispatched' = << >>
  /\ inputCalls' = << >>

\* C22, as stated: an input.performActions with a pointer source whose id
\* was first used, on the same top-level context, with another pointer
\* subtype fails with `invalid argument` before any of its actions is
\* dispatched.
C22_SubtypeFixedByFirstUse ==
  [][(turn'.op = "input.performActions" /\ findContext(turn'.id))
     => ((\E n \in 1..Len(turn'.actions), u \in firstUse :
            /\ turn'.actions[n].type = "pointer"
            /\ u.top = TopOfTurn(turn') /\ u.id = turn'.actions[n].id
            /\ u.subtype # AskedSubtype(turn'.actions[n]))
         => FailsBeforeDispatch)]_vars

\* The subtype a pointer source id has for the n-th source of a command:
\* that of the InputState of the top-level context, or, the InputState
\* having no such source, that of the first source of the command with
\* the id
FixedSubtype(params, top, n) ==
  LET id == params[n].id
      first == CHOOSE m \in 1..n :
                 /\ params[m].id = id
                 /\ \A k \in 1..(m - 1) : params[k].id # id
  IN  IF top \in DOMAIN inputStates /\ id \in DOMAIN inputStates[top].sources
        THEN inputStates[top].sources[id].subtype
        ELSE AskedSubtype(params[first])

\* C22, amended: the subtype of a pointer source id is fixed by its first
\* use under the InputState of the top-level context, which
\* input.releaseActions deletes.  An input.performActions with a pointer
\* source that asks for another subtype than the fixed one fails with
\* `invalid argument` before any of its actions is dispatched, and no
\* other input.performActions of these sources fails.
C22_SubtypeFixedUntilRelease ==
  [][(turn'.op = "input.performActions" /\ findContext(turn'.id))
     => IF \E n \in 1..Len(turn'.actions) :
             /\ turn'.actions[n].type = "pointer"
             /\ FixedSubtype(turn'.actions, TopOfTurn(turn'), n)
                  # AskedSubtype(turn'.actions[n])
          THEN FailsBeforeDispatch
          ELSE \A r \in responses' : r.status = Success]_vars

\* An input.performActions in the frame has failed for a pointer source
\* that asks for `touch`: the id was first used in the page, without a
\* pointerType, in a command whose actions were dispatched.
C22_Witness ==
  /\ turn.op = "input.performActions"
  /\ turn.id = "F1"
  /\ turn.actions = <<SourceActions("pointer", "p", Given("touch"),
                                    <<"pointerDown">>)>>
  /\ responses = {Response("input.performActions", "F1", InvalidArgument)}
  /\ firstUse = {[top |-> "P1", id |-> "p", subtype |-> "mouse"]}
  /\ "P1" \in DOMAIN performed
  /\ performed["P1"] = <<ActionOption("p", "pointerDown")>>

(***************************************************************************)
(* The decomposition into ticks, for up to three sources of up to three     *)
(* actions.  The sources are of type `none`, whose actions are pauses.       *)
(* Specification: TickSpec.                                                  *)
(***************************************************************************)
TickSources ==
  {SourceActions("none", id, Absent, actions) :
     id \in {"n1", "n2"},
     actions \in {<< >>, <<"pause1">>, <<"pause1", "pause2">>,
                  <<"pause2", "pause1", "pause3">>}}

TickParams ==
  {<< >>}
  \cup {<<source>> : source \in TickSources}
  \cup {<<s1, s2>> : s1 \in TickSources, s2 \in TickSources}
  \cup {<<s1, s2, s3>> :
          s1 \in TickSources, s2 \in TickSources, s3 \in TickSources}

PerformTicks ==
  \E params \in TickParams : ProcessPerformActions("P1", params)

TickNext ==
  /\ \/ InputAttachPage
     \/ PerformTicks
     \/ TickDispatched
  /\ UNCHANGED <<transportVars, unsupported, swapVars, eventVars, navVars>>

TickSpec == Init /\ [][TickNext]_vars

\* The length of the longest action sequence of the sources
MaxLength(params) ==
  IF params = << >> THEN 0
  ELSE CHOOSE k \in {Len(params[n].actions) : n \in 1..Len(params)} :
         \A n \in 1..Len(params) : Len(params[n].actions) <= k

\* The i-th action of every source that has one, with the id of its
\* source, in the order of the sources
ExpectedTick(params, i) ==
  LET having == SelectSeq(params, LAMBDA source : Len(source.actions) >= i)
  IN  [n \in 1..Len(having) |->
         ActionOption(having[n].id, having[n].actions[i])]

\* The sum of the lengths of the sequences of a sequence
RECURSIVE SumOfLengths(_)
SumOfLengths(seqs) ==
  IF seqs = << >> THEN 0 ELSE Len(Head(seqs)) + SumOfLengths(Tail(seqs))

\* The ticks of the command of the turn: those its dispatcher is given
TicksOfTurn == IF inputCalls = << >> THEN << >> ELSE inputCalls[1].ticks

\* C23: the ticks of an input.performActions are as many as the longest
\* action sequence of its sources, the i-th tick holds the i-th action of
\* every source that has more than i - 1 actions, each with the id of its
\* source and in the order of the sources, and nothing else; the ticks
\* hold as many actions as the sources.
C23_TicksDecomposition ==
  [][(/\ turn'.op = "input.performActions"
      /\ findContext(turn'.id)
      /\ \A r \in responses' : r.status = Success)
     => /\ Len(TicksOfTurn') = MaxLength(turn'.actions)
        /\ \A i \in 1..Len(TicksOfTurn') :
             TicksOfTurn'[i] = ExpectedTick(turn'.actions, i)
        /\ SumOfLengths(TicksOfTurn') =
             SumOfLengths([n \in 1..Len(turn'.actions) |->
                             turn'.actions[n].actions])]_vars

\* An input.performActions of three sources with three, no and two
\* actions has three ticks, of two, two and one action.
C23_Witness ==
  /\ turn.op = "input.performActions"
  /\ Len(turn.actions) = 3
  /\ Len(turn.actions[1].actions) = 3
  /\ Len(turn.actions[2].actions) = 0
  /\ Len(turn.actions[3].actions) = 2
  /\ Len(TicksOfTurn) = 3
  /\ Len(TicksOfTurn[1]) = 2 /\ Len(TicksOfTurn[2]) = 2
  /\ TicksOfTurn[3] = <<ActionOption(turn.actions[1].id, "pause3")>>

\* The undo actions of the actions performed, the newest first
NewestFirstUndo(done) ==
  [i \in 1..Len(done) |->
     ActionOption(done[Len(done) + 1 - i].id,
                  InverseOf(done[Len(done) + 1 - i].action))]

\* C24: an input.releaseActions dispatches, as one tick, the undo actions
\* of the actions performed under the InputState of its top-level context,
\* the undo of the action performed last first.
C24_ReleaseNewestFirst ==
  [][\A r \in responses' :
       (r.method = "input.releaseActions" /\ r.status = Success)
       => LET top == TopOf(contexts, r.context, Cardinality(DOMAIN contexts))
          IN  dispatched' =
                NewestFirstUndo(IF top \in DOMAIN performed
                                  THEN performed[top] ELSE << >>)]_vars

(***************************************************************************)
(* Part VIII.  browsingContext.navigate.                                    *)
(***************************************************************************)
\* The loader ids of the documents the browser commits after the initial
\* one, in the order it commits them; none is used twice.
LoaderIds == <<"L1", "L2", "L3">>

\* The values of `wait`
WaitValues == {"none", "interactive", "complete"}

\* The loader id of the document a page shows
currentLoader(id) == documents[id][Len(documents[id])]

\* The loader id of the next document of a page
NextLoader(id) == LoaderIds[Len(documents[id])]

\* A mutant of waitOf: an omitted `wait` stands for `complete`.
waitOf_DefaultComplete(wait) == IF wait = Absent THEN "complete" ELSE wait[1]

\* process_browsingContext_navigate: params.wait ?? 'none'
waitOf(wait) == IF wait = Absent THEN "none" ELSE wait[1]

\* A pending browsingContext.navigate: pc is "navigate" until the browser
\* has run Page.navigate, "reply" while the reply is on its way and
\* "lifecycle" while the lifecycle event is awaited.  `asked` is the `wait`
\* of the command as the client wrote it; `loaderId` and `errorText` are
\* those of the reply.
Navigation(context, asked) ==
  [context |-> context, asked |-> asked, wait |-> waitOf(asked),
   pc |-> "navigate", loaderId |-> Null, errorText |-> FALSE]

\* The result of a browsingContext.navigate: {navigation, url} or an error
NavigateResult(navigation, status) ==
  [context |-> navigation.context, asked |-> navigation.asked,
   status |-> status,
   navigation |-> IF status = Success THEN navigation.loaderId ELSE Null]

\* A mutant of lifecycleResolves: the loader id of the event is not
\* compared with the one of the navigation.
lifecycleResolves_AnyLoader(navigation, name, loaderId) ==
  \/ navigation.wait = "interactive" /\ name = "DOMContentLoaded"
  \/ navigation.wait = "complete" /\ name = "load"

\* BrowsingContextImpl.navigate resumes on a Page.lifecycleEvent: the
\* event of its `wait`, of the loader id that Page.navigate returned
lifecycleResolves(navigation, name, loaderId) ==
  /\ navigation.loaderId = loaderId
  /\ \/ navigation.wait = "interactive" /\ name = "DOMContentLoaded"
     \/ navigation.wait = "complete" /\ name = "load"

\* process_browsingContext_navigate, up to the Page.navigate it sends
ProcessNavigate(context, wait) ==
  /\ IF ~findContext(context)
       THEN /\ navigated' =
                 {NavigateResult(Navigation(context, wait), NoSuchFrame)}
            /\ UNCHANGED navigations
       ELSE /\ Len(navigations) < MaxCalls
            /\ navigations' = Append(navigations, Navigation(context, wait))
            /\ navigated' = {}
  /\ turn' = [op |-> "browsingContext.navigate", id |-> context,
              wait |-> wait]
  /\ responses' = {}
  /\ UNCHANGED documents
  /\ UNCHANGED <<browserTargets, frameParent, listeners, cdpTargets,
                 contexts, calls, closed>>
  /\ UNCHANGED <<scriptVars, realmVars>>

\* The browser commits a new document in a page, and the context hears
\* Page.frameNavigated: its lifecycle starts again.
CommitDocument(id) ==
  /\ documents' = [documents EXCEPT ![id] = Append(@, NextLoader(id))]
  /\ contexts' = [contexts EXCEPT ![id].lifecycle = "loading"]

\* The browser runs the Page.navigate of a pending navigation: it commits
\* a document, whose loader id the reply carries, or it fails, and the
\* reply carries an errorText.
PageNavigate(i, ok) ==
  /\ i \in 1..Len(navigations)
  /\ navigations[i].pc = "navigate"
  /\ findContext(navigations[i].context)
  /\ browserTargets[navigations[i].context] = "attached"
  /\ Len(documents[navigations[i].context]) <= Len(LoaderIds)
  /\ IF ok
       THEN /\ CommitDocument(navigations[i].context)
            /\ navigations' =
                 [navigations EXCEPT
                    ![i].pc = "reply",
                    ![i].loaderId = NextLoader(navigations[i].context)]
       ELSE /\ navigations' = [navigations EXCEPT ![i].pc = "reply",
                                                  ![i].errorText = TRUE]
            /\ UNCHANGED <<documents, contexts>>
  /\ turn' = Event
  /\ responses' = {}
  /\ navigated' = {}
  /\ UNCHANGED <<browserTargets, frameParent, listeners, cdpTargets, calls,
                 closed>>
  /\ UNCHANGED <<scriptVars, realmVars>>

\* The page navigates by itself: a document that no command asked for
PageNavigates(id) ==
  /\ findContext(id)
  /\ id \in PageIds
  /\ browserTargets[id] = "attached"
  /\ Len(documents[id]) <= Len(LoaderIds)
  /\ \A i \in 1..Len(navigations) :
       navigations[i].context = id => navigations[i].pc = "lifecycle"
  /\ CommitDocument(id)
  /\ turn' = Event
  /\ responses' = {}
  /\ navigated' = {}
  /\ UNCHANGED navigations
  /\ UNCHANGED <<browserTargets, frameParent, listeners, cdpTargets, calls,
                 closed>>
  /\ UNCHANGED <<scriptVars, realmVars>>

\* BrowsingContextImpl.navigate, from the reply of Page.navigate
NavigateReplied(i) ==
  /\ i \in 1..Len(navigations)
  /\ navigations[i].pc = "reply"
  /\ IF navigations[i].errorText
       THEN /\ navigations' = RemoveAt(navigations, i)
            /\ navigated' = {NavigateResult(navigations[i], UnknownError)}
       ELSE IF navigations[i].wait = "none"
         THEN /\ navigations' = RemoveAt(navigations, i)
              /\ navigated' = {NavigateResult(navigations[i], Success)}
         ELSE /\ navigations' = [navigations EXCEPT ![i].pc = "lifecycle"]
              /\ navigated' = {}
  /\ turn' = [op |-> "Page.navigate", id |-> navigations[i].context,
              loaderId |-> navigations[i].loaderId,
              errorText |-> navigations[i].errorText]
  /\ responses' = {}
  /\ UNCHANGED documents
  /\ UNCHANGED <<browserTargets, frameParent, listeners, cdpTargets,
                 contexts, calls, closed>>
  /\ UNCHANGED <<scriptVars, realmVars>>

\* Page.lifecycleEvent of the document the page shows, which follows the
\* reply of the Page.navigate that committed it: the navigations that
\* await it resolve.
NavigationLifecycleEvent(id, name) ==
  /\ \A i \in 1..Len(navigations) :
       navigations[i].context = id => navigations[i].pc # "reply"
  /\ LifecycleEvent(id, name)
  /\ LET resolves(navigation) ==
           /\ navigation.context = id
           /\ navigation.pc = "lifecycle"
           /\ lifecycleResolves(navigation, name, currentLoader(id))
         pending(navigation) == ~resolves(navigation)
     IN  /\ navigations' = SelectSeq(navigations, pending)
         /\ navigated' =
              {NavigateResult(navigations[i], Success) :
                 i \in {j \in 1..Len(navigations) : resolves(navigations[j])}}
  /\ UNCHANGED documents

\* The target of a context goes away: the navigations of the contexts that
\* it deletes fail.
NavigationsAborted ==
  LET deleted(navigation) == navigation.context \notin DOMAIN contexts'
      pending(navigation) == ~deleted(navigation)
  IN  /\ navigations' = SelectSeq(navigations, pending)
      /\ navigated' =
           {NavigateResult(navigations[i], UnknownError) :
              i \in {j \in 1..Len(navigations) : deleted(navigations[j])}}
      /\ UNCHANGED documents

NavigateAttachPage ==
  AttachPage /\ navigated' = {} /\ UNCHANGED <<documents, navigations>>
NavigateDetachPage == DetachPage /\ NavigationsAborted
Navigate ==
  \E context \in PageIds,
     wait \in {Absent} \cup {Given(w) : w \in WaitValues} :
    ProcessNavigate(context, wait)
BrowserNavigates ==
  \E i \in 1..MaxCalls, ok \in BOOLEAN : PageNavigate(i, ok)
PageNavigatesItself == PageNavigates("P1")
NavigateReply == \E i \in 1..MaxCalls : NavigateReplied(i)
NavigationLifecycle ==
  \E name \in {"DOMContentLoaded", "load"} :
    NavigationLifecycleEvent("P1", name)

NavigateNext ==
  /\ \/ NavigateAttachPage
     \/ NavigateDetachPage
     \/ Navigate
     \/ BrowserNavigates
     \/ PageNavigatesItself
     \/ NavigateReply
     \/ NavigationLifecycle
  /\ UNCHANGED <<transportVars, unsupported, swapVars, eventVars, inputVars,
                 unblockVars>>

NavigateSpec == Init /\ [][NavigateNext]_vars

\* The `wait` the claim gives a command: the one it names, or `none`
ClaimedWait(asked) == IF asked = Absent THEN "none" ELSE asked[1]

\* The turn is the Page.lifecycleEvent `name` of the document that page
\* `id` shows: the lifecycle of the context moves to the stage after it.
IsLifecycleTurn(id, before, after) ==
  /\ turn' = Event
  /\ documents' = documents
  /\ id \in DOMAIN contexts /\ id \in DOMAIN contexts'
  /\ contexts[id].lifecycle = before
  /\ contexts'[id].lifecycle = after

\* C25: a browsingContext.navigate resolves by its `wait`, `none` when
\* omitted: with `none` in the turn of the reply of Page.navigate, with
\* `interactive` in the turn of the DOMContentLoaded of the document whose
\* loader id the reply carried, with `complete` in the turn of the load of
\* that document, never on an event of another document; the navigation
\* of the result is that loader id.
C25_NavigateResolvesByWait ==
  [][/\ \A r \in navigated' :
          r.status = Success =>
            /\ \E i \in 1..Len(navigations) :
                  /\ navigations[i].context = r.context
                  /\ navigations[i].asked = r.asked
                  /\ navigations[i].loaderId = r.navigation
            /\ r.navigation # Null
            /\ ClaimedWait(r.asked) = "none" =>
                 /\ turn'.op = "Page.navigate"
                 /\ turn'.loaderId = r.navigation
            /\ ClaimedWait(r.asked) = "interactive" =>
                 /\ IsLifecycleTurn(r.context, "loading", "interactive")
                 /\ currentLoader(r.context) = r.navigation
            /\ ClaimedWait(r.asked) = "complete" =>
                 /\ IsLifecycleTurn(r.context, "interactive", "complete")
                 /\ currentLoader(r.context) = r.navigation
     /\ (turn'.op = "Page.navigate" /\ ~turn'.errorText) =>
          \A i \in 1..Len(navigations) :
            (/\ navigations[i].pc = "reply"
             /\ navigations[i].loaderId = turn'.loaderId
             /\ ClaimedWait(navigations[i].asked) = "none")
            => \E r \in navigated' :
                 /\ r.status = Success
                 /\ r.navigation = turn'.loaderId]_vars

\* A navigation with `wait` complete has resolved on the load of the
\* second document the browser committed, which is the one its
\* Page.navigate returned, after the page had shown another one.
C25_Witness ==
  \E r \in navigated :
    /\ r.status = Success
    /\ r.asked = Given("complete")
    /\ r.navigation = "L2"
    /\ currentLoader(r.context) = "L2"
    /\ contexts[r.context].lifecycle = "complete"

(***************************************************************************)
(* Part IX.  The end of a context and the operations that await it.         *)
(* Specification: CancelSpec.                                               *)
(***************************************************************************)
\* A script evaluation that awaits context.awaitUnblocked()
Evaluation(target, realm, context, resultOwnership) ==
  [target |-> target, realm |-> realm, context |-> context,
   resultOwnership |-> resultOwnership]

\* BrowsingContextImpl.awaitUnblocked has resolved: the CdpTarget of the
\* context has finished its start.
awaitUnblocked(store, id) ==
  id \in DOMAIN store /\ store[id].cdpTarget \notin blocked

\* BrowsingContextImpl.delete fails what awaits the `unblocked` signal of
\* the context: awaitUnblocked has rejected.
awaitUnblockedRejects(store, id) == id \notin DOMAIN store

\* The evaluations whose context a handler deleted fail.
EvaluationsAborted ==
  LET deleted(evaluation) ==
        awaitUnblockedRejects(contexts', evaluation.context)
      pending(evaluation) == ~deleted(evaluation)
  IN  /\ evaluations' = SelectSeq(evaluations, pending)
      /\ evaluated' =
           {RealmResponse("script.evaluate", evaluations[i].target,
                          UnknownError, evaluations[i].realm, << >>) :
              i \in {j \in 1..Len(evaluations) : deleted(evaluations[j])}}

\* No navigation and no evaluation ends or starts in the turn.
NoNavigation == navigated' = {} /\ UNCHANGED <<documents, navigations>>
NoEvaluation == evaluated' = {} /\ UNCHANGED <<blocked, evaluations>>

\* Target.attachedToTarget, with the CdpTarget it creates, which starts
\* blocked
CdpTargetCreated(targetId) ==
  /\ TargetAttached(targetId)
  /\ blocked' = IF targetId \in DOMAIN cdpTargets'
                  THEN blocked \cup {targetId} ELSE blocked
  /\ evaluated' = {}
  /\ UNCHANGED evaluations
  /\ NoNavigation

\* CdpTarget has finished its start: the evaluations that await the
\* `unblocked` of its contexts send their Runtime.evaluate.
TargetUnblocked(targetId) ==
  /\ targetId \in blocked
  /\ browserTargets[targetId] = "attached"
  /\ blocked' = blocked \ {targetId}
  /\ LET resumes(evaluation) ==
           /\ findContext(evaluation.context)
           /\ contexts[evaluation.context].cdpTarget = targetId
         pending(evaluation) == ~resumes(evaluation)
         resumed == SelectSeq(evaluations, resumes)
     IN  /\ evaluations' = SelectSeq(evaluations, pending)
         /\ realmCalls' = realmCalls \o
              [i \in 1..Len(resumed) |->
                 RealmCall("evaluate", resumed[i].target, resumed[i].realm,
                           resumed[i].resultOwnership, << >>, << >>)]
  /\ evaluated' = {}
  /\ turn' = Event
  /\ responses' = {}
  /\ NoNavigation
  /\ UNCHANGED <<executionContexts, objects, realmMap, knownHandlesToRealm,
                 releases>>
  /\ UNCHANGED <<browserTargets, frameParent, listeners, cdpTargets, contexts,
                 calls, closed>>
  /\ UNCHANGED scriptVars

\* process_script_evaluate and Realm.scriptEvaluate: the evaluation awaits
\* the `unblocked` of its context before it sends Runtime.evaluate.
ScriptEvaluate(target, resultOwnership) ==
  /\ Len(realmCalls) + Len(evaluations) < MaxCalls
  /\ LET found == getRealm(target)
         context == IF found.status = Success
                      THEN realmMap[found.realm].browsingContextId ELSE Null
     IN  IF found.status = Success /\ findContext(context)
            /\ ~awaitUnblocked(contexts, context)
           THEN /\ evaluations' =
                     Append(evaluations,
                       Evaluation(target, found.realm, context,
                                  resultOwnershipOf(resultOwnership)))
                /\ turn' = [op |-> "script.evaluate", target |-> target,
                            resultOwnership |-> resultOwnership]
                /\ responses' = {}
                /\ UNCHANGED realmVars
                /\ UNCHANGED <<browserTargets, frameParent, listeners,
                               cdpTargets, contexts, calls, closed>>
                /\ UNCHANGED scriptVars
           ELSE /\ ProcessEvaluate(target, resultOwnership)
                /\ UNCHANGED evaluations
  /\ evaluated' = {}
  /\ UNCHANGED blocked
  /\ NoNavigation

\* Target.detachedFromTarget: what awaits the contexts it deletes fails.
CdpTargetDetached(targetId) ==
  /\ TargetDetached(targetId)
  /\ blocked' = blocked \ {targetId}
  /\ NavigationsAborted
  /\ EvaluationsAborted

\* Page.frameDetached: what awaits the contexts it deletes fails.
FrameContextDetached(frameId, reason) ==
  /\ FrameDetached(frameId, reason)
  /\ UNCHANGED blocked
  /\ NavigationsAborted
  /\ EvaluationsAborted

CancelAttachPage == CdpTargetCreated("P1")
CancelUnblocked == TargetUnblocked("P1")
CancelDetachPage == CdpTargetDetached("P1")
CancelAttachFrame == AttachRealmFrame /\ NoNavigation /\ NoEvaluation
CancelDetachFrame ==
  \E reason \in {"remove", "swap"} : FrameContextDetached("F1", reason)
CancelContextCreated ==
  /\ \E id \in {"P1", "F1"} : ExecutionContextCreated(id)
  /\ NoNavigation /\ NoEvaluation
CancelLifecycle ==
  /\ "P1" \notin blocked
  /\ NavigationLifecycle
  /\ NoEvaluation
CancelCreate == ProcessCreate(Null) /\ NoNavigation /\ NoEvaluation
CancelBrowserCreates ==
  /\ \E i \in 1..MaxCalls : CreateTarget(i, "P1")
  /\ NoNavigation /\ NoEvaluation
CancelCreateReply == CreateReply /\ NoNavigation /\ NoEvaluation
\* The client navigates the page once, and awaits its load.
CancelNavigate ==
  /\ documents["P1"] = <<"L0">>
  /\ ProcessNavigate("P1", Given("complete"))
  /\ NoEvaluation
CancelBrowserNavigates ==
  /\ \E i \in 1..MaxCalls : PageNavigate(i, TRUE)
  /\ NoEvaluation
CancelNavigateReply == NavigateReply /\ NoEvaluation
CancelEvaluate ==
  \E id \in {"P1", "F1"} : ScriptEvaluate(ContextTarget(id), Given("root"))
CancelEvaluateReply ==
  /\ EvaluateReply
  /\ NoNavigation /\ NoEvaluation

CancelNext ==
  /\ \/ CancelAttachPage
     \/ CancelUnblocked
     \/ CancelDetachPage
     \/ CancelAttachFrame
     \/ CancelDetachFrame
     \/ CancelContextCreated
     \/ CancelLifecycle
     \/ CancelCreate
     \/ CancelBrowserCreates
     \/ CancelCreateReply
     \/ CancelNavigate
     \/ CancelBrowserNavigates
     \/ CancelNavigateReply
     \/ CancelEvaluate
     \/ CancelEvaluateReply
  /\ UNCHANGED <<transportVars, unsupported, swapVars, eventVars, inputVars>>

CancelSpec == Init /\ [][CancelNext]_vars

\* The page or the frame leaves the browser in this step: its target
\* detaches, or the frame is removed from its document.
Disappears(id) ==
  \/ /\ id \in TargetIds
     /\ browserTargets[id] # "closed"
     /\ browserTargets'[id] = "closed"
  \/ /\ id \in AllFrameIds
     /\ frameParent[id] # Removed
     /\ frameParent'[id] = Removed

\* The page or the frame is in the browser.
InBrowser(id) ==
  IF id \in AllFrameIds THEN frameParent[id] # Removed
  ELSE browserTargets[id] # "closed"

\* The error of an operation whose context has gone
FailedWith(status) == status \in {NoSuchFrame, UnknownError}

\* Every operation that awaits a signal of a context awaits one of a
\* context that is in the browser.
NonePendingOnGone ==
  /\ \A i \in 1..Len(calls) :
       (calls[i].method = "create" /\ calls[i].pc = "loaded")
       => InBrowser(calls[i].context)
  /\ \A i \in 1..Len(navigations) :
       navigations[i].pc = "lifecycle" => InBrowser(navigations[i].context)
  /\ \A i \in 1..Len(evaluations) : InBrowser(evaluations[i].context)

\* C26: when a context leaves the browser (Target.detachedFromTarget,
\* Page.frameDetached with a reason other than swap), every navigation
\* that awaits its lifecycle event, every browsingContext.create that
\* awaits its `loaded` and every script evaluation that awaits its
\* `unblocked` fails in the turn of the event, with `no such frame` or
\* `unknown error`; none stays pending on a context that has gone.
C26_PendingFailOnDisappearance ==
  [][/\ \A id \in BrowserIds :
          Disappears(id) =>
            /\ \A i \in 1..Len(calls) :
                 (/\ calls[i].method = "create"
                  /\ calls[i].pc = "loaded"
                  /\ calls[i].context = id)
                 => \E r \in responses' :
                      /\ r.method = "create"
                      /\ r.context = id
                      /\ FailedWith(r.status)
            /\ \A i \in 1..Len(navigations) :
                 (navigations[i].pc = "lifecycle"
                  /\ navigations[i].context = id)
                 => \E r \in navigated' :
                      /\ r.context = id
                      /\ r.asked = navigations[i].asked
                      /\ FailedWith(r.status)
            /\ \A i \in 1..Len(evaluations) :
                 evaluations[i].context = id
                 => \E r \in evaluated' :
                      /\ r.target = evaluations[i].target
                      /\ FailedWith(r.status)
     /\ NonePendingOnGone']_vars

\* The target of a page has detached while a browsingContext.create
\* awaited its `loaded`, a navigation its load and a script evaluation its
\* `unblocked`: the three have failed.
C26_Witness ==
  /\ browserTargets["P1"] = "closed"
  /\ \E r \in responses :
       r.method = "create" /\ r.context = "P1" /\ FailedWith(r.status)
  /\ \E r \in navigated : r.context = "P1" /\ FailedWith(r.status)
  /\ \E r \in evaluated :
       r.target = ContextTarget("P1") /\ FailedWith(r.status)

(***************************************************************************)
(* Part X.  EventManager: subscriptions and the events stored for late     *)
(* subscribers.  Specification: EventSpec.                                  *)
(***************************************************************************)
contextCreated == "browsingContext.contextCreated"
domContentLoaded == "browsingContext.domContentLoaded"
load == "browsingContext.load"
contextDestroyed == "browsingContext.contextDestroyed"

\* The events that are stored when no subscription matches them
AlwaysBuffered == {contextCreated, domContentLoaded, load}

\* The channels of the client
Channels == {"a", "b"}

\* The number of session.subscribe and session.unsubscribe of a client
MaxSessionCommands == 2

\* A subscription, an event as registered (the n-th; `matched`: a
\* subscription matched it then) and an outbound event
Subscription(event, contextId, channel) ==
  [event |-> event, contextId |-> contextId, channel |-> channel]
Occurrence(n, name, context, matched) ==
  [n |-> n, name |-> name, context |-> context, matched |-> matched]
Message(occurrence, subscription) ==
  [n |-> occurrence.n, name |-> occurrence.name,
   context |-> occurrence.context, subscription |-> subscription]

\* The subscription is for the event: its name, in its context or in any
Matches(subscription, occurrence) ==
  /\ subscription.event = occurrence.name
  /\ subscription.contextId \in {Null, occurrence.context}

\* The events of a set, in the order they were registered
RECURSIVE InRegistrationOrder(_)
InRegistrationOrder(occurrences) ==
  IF occurrences = {} THEN << >>
  ELSE LET first == CHOOSE o \in occurrences :
                      \A other \in occurrences : o.n <= other.n
       IN  <<first>> \o InRegistrationOrder(occurrences \ {first})

\* The entries of a session.subscribe or session.unsubscribe
Entries(events, contextIds, channel) ==
  {Subscription(e, c, channel) :
     e \in Range(events),
     c \in IF contextIds = Absent THEN {Null} ELSE Range(contextIds[1])}

\* The pairs an outbound sequence delivers
Deliveries(messages) ==
  {<<messages[i].n, messages[i].subscription>> : i \in 1..Len(messages)}

\* A mutant of stored: an event that a subscription matched is stored too.
stored_Always(name, matching) == name \in AlwaysBuffered

\* EventManager.registerEvent: the event is stored when no subscription
\* matches it and it is one of the always-buffered ones.
stored(name, matching) == matching = {} /\ name \in AlwaysBuffered

\* A mutant of consumed: a flushed event stays in the buffer.
consumed_Never(buffer, flushed) == buffer

\* EventManager.subscribe: the flushed events are marked consumed.
consumed(buffer, flushed) ==
  SelectSeq(buffer, LAMBDA o : o \notin flushed)

\* EventManager.registerEvent(event, contextId)
registerEvent(name, context) ==
  LET n == Len(registered) + 1
      matching == {sub \in subscriptions :
                     Matches(sub, Occurrence(n, name, context, FALSE))}
      occurrence == Occurrence(n, name, context, matching # {})
      to == SetToSeq(matching)
  IN  /\ registered' = Append(registered, occurrence)
      /\ emitted' = [i \in 1..Len(to) |-> Message(occurrence, to[i])]
      /\ delivered' = delivered \cup {<<n, sub>> : sub \in matching}
      /\ eventBuffer' =
           [t \in PageIds |->
              IF t = context /\ stored(name, matching)
                THEN Append(eventBuffer[t], occurrence)
                ELSE eventBuffer[t]]
      /\ UNCHANGED <<subscriptions, sessionCommands>>

\* EventManager.subscribe(events, contextIds, channel): the entries are
\* added, and the stored events that match one of them are flushed, in
\* order, and marked consumed.
ProcessSubscribe(events, contextIds, channel) ==
  LET entries == Entries(events, contextIds, channel)
      flushed == {o \in UNION {Range(eventBuffer[t]) : t \in PageIds} :
                    \E entry \in entries : Matches(entry, o)}
      inOrder == InRegistrationOrder(flushed)
      out == [i \in 1..Len(inOrder) |->
                Message(inOrder[i],
                        CHOOSE entry \in entries : Matches(entry, inOrder[i]))]
  IN  /\ sessionCommands < MaxSessionCommands
      /\ sessionCommands' = sessionCommands + 1
      /\ subscriptions' = subscriptions \cup entries
      /\ emitted' = out
      /\ delivered' = delivered \cup Deliveries(out)
      /\ eventBuffer' =
           [t \in PageIds |-> consumed(eventBuffer[t], flushed)]
      /\ turn' = [op |-> "session.subscribe", events |-> events,
                  contexts |-> contextIds, channel |-> channel]
      /\ responses' = {}
      /\ UNCHANGED registered
      /\ UNCHANGED <<browserTargets, frameParent, listeners, cdpTargets,
                     contexts, calls, closed>>
      /\ UNCHANGED <<scriptVars, realmVars>>

\* EventManager.unsubscribe(events, contextIds, channel)
ProcessUnsubscribe(events, contextIds, channel) ==
  /\ sessionCommands < MaxSessionCommands
  /\ sessionCommands' = sessionCommands + 1
  /\ subscriptions' = subscriptions \ Entries(events, contextIds, channel)
  /\ emitted' = << >>
  /\ turn' = [op |-> "session.unsubscribe", events |-> events,
              contexts |-> contextIds, channel |-> channel]
  /\ responses' = {}
  /\ UNCHANGED <<eventBuffer, registered, delivered>>
  /\ UNCHANGED <<browserTargets, frameParent, listeners, cdpTargets,
                 contexts, calls, closed>>
  /\ UNCHANGED <<scriptVars, realmVars>>

\* BrowsingContextImpl.create registers browsingContext.contextCreated.
ContextCreatedRegistered(targetId) ==
  /\ TargetAttached(targetId)
  /\ registerEvent(contextCreated, targetId)

\* The Page.lifecycleEvent listener of BrowsingContextImpl registers
\* browsingContext.domContentLoaded and browsingContext.load.
LifecycleRegistered(id, name) ==
  /\ LifecycleEvent(id, name)
  /\ registerEvent(IF name = "load" THEN load ELSE domContentLoaded, id)

\* BrowsingContextImpl.delete registers browsingContext.contextDestroyed,
\* and the buffer of the context is discarded.
ContextDestroyedRegistered(targetId) ==
  /\ TargetDetached(targetId)
  /\ LET n == Len(registered) + 1
         matching == {sub \in subscriptions :
                        Matches(sub, Occurrence(n, contextDestroyed,
                                                targetId, FALSE))}
         occurrence == Occurrence(n, contextDestroyed, targetId,
                                  matching # {})
         to == SetToSeq(matching)
     IN  /\ registered' = Append(registered, occurrence)
         /\ emitted' = [i \in 1..Len(to) |-> Message(occurrence, to[i])]
         /\ delivered' = delivered \cup {<<n, sub>> : sub \in matching}
  /\ eventBuffer' = [t \in PageIds |->
                       IF t \in DOMAIN contexts' THEN eventBuffer[t]
                       ELSE << >>]
  /\ UNCHANGED <<subscriptions, sessionCommands>>

\* What the client subscribes to
SubscribedEvents == {<<contextCreated>>, <<contextCreated, load>>}
SubscribedContexts == {Absent, Given(<<"P1">>)}

EventAttach == \E t \in PageIds : ContextCreatedRegistered(t)
EventLifecycle ==
  \E name \in {"DOMContentLoaded", "load"} : LifecycleRegistered("P1", name)
EventDetach == \E t \in PageIds : ContextDestroyedRegistered(t)
Subscribe ==
  \E events \in SubscribedEvents, cs \in SubscribedContexts,
     channel \in Channels :
    ProcessSubscribe(events, cs, channel)
\* The client unsubscribes from what it has subscribed to.
Unsubscribe ==
  \E events \in SubscribedEvents, cs \in SubscribedContexts,
     channel \in Channels :
    /\ Entries(events, cs, channel) \subseteq subscriptions
    /\ ProcessUnsubscribe(events, cs, channel)

EventNext ==
  /\ \/ EventAttach
     \/ EventLifecycle
     \/ EventDetach
     \/ Subscribe
     \/ Unsubscribe
  /\ UNCHANGED <<transportVars, unsupported, swapVars, inputVars, navVars>>

EventSpec == Init /\ [][EventNext]_vars

\* The always-buffered events that were registered when no subscription
\* matched them and that no session.subscribe has flushed since
Unflushed ==
  {o \in Range(registered) :
     /\ o.name \in AlwaysBuffered
     /\ ~o.matched
     /\ \A d \in delivered : d[1] # o.n}

\* Those that match an entry of a session.subscribe
OwedToEntries(entries) ==
  {o \in Unflushed : \E entry \in entries : Matches(entry, o)}

\* Those of them whose context is still stored
OwedOfStoredContexts(entries) ==
  {o \in OwedToEntries(entries) : o.context \in DOMAIN contexts}

\* The step delivers every event once per subscription: nothing it emits
\* was emitted to the same subscription before, nor after a later event of
\* that subscription; a registered event goes once to each subscription
\* that matches it; a session.subscribe flushes what is owed to its
\* entries, in registration order, and nothing else.
DeliversOnce(Owed(_)) ==
  /\ \A i \in 1..Len(emitted') :
       /\ \A d \in delivered :
            d[2] = emitted'[i].subscription => d[1] < emitted'[i].n
       /\ \A j \in 1..Len(emitted') : j # i => emitted'[j] # emitted'[i]
  /\ Len(registered') > Len(registered) =>
       LET o == registered'[Len(registered')]
           matching == {sub \in subscriptions : Matches(sub, o)}
       IN  /\ Deliveries(emitted') = {<<o.n, sub>> : sub \in matching}
           /\ Len(emitted') = Cardinality(matching)
  /\ sessionCommands' > sessionCommands /\ turn'.op = "session.subscribe" =>
       LET entries == Entries(turn'.events, turn'.contexts, turn'.channel)
           owed == InRegistrationOrder(Owed(entries))
       IN  /\ Len(emitted') = Len(owed)
           /\ \A i \in 1..Len(owed) :
                /\ emitted'[i].n = owed[i].n
                /\ emitted'[i].name = owed[i].name
                /\ emitted'[i].context = owed[i].context
                /\ emitted'[i].subscription \in entries
                /\ Matches(emitted'[i].subscription, owed[i])

\* C27, as stated: every event is delivered exactly once per subscription;
\* an always-buffered event registered before any matching subscription
\* exists is flushed on the later session.subscribe, in registration order
\* and in the turn of the subscribe, and is not delivered to that
\* subscription again.
C27_DeliveredExactlyOnce == [][DeliversOnce(OwedToEntries)]_vars

\* C27, amended: the same, for the always-buffered events of the contexts
\* that have not been deleted since; the events stored for a context are
\* discarded with it and no later session.subscribe flushes them.
C27_DeliveredOnceForStoredContexts ==
  [][DeliversOnce(OwedOfStoredContexts)]_vars

\* A session.subscribe has flushed the contextCreated of two contexts,
\* registered before any subscription existed, in their order.
C27_Witness ==
  /\ turn.op = "session.subscribe"
  /\ Len(emitted) = 2
  /\ emitted[1].name = contextCreated /\ emitted[1].context = "P2"
  /\ emitted[2].name = contextCreated /\ emitted[2].context = "P1"
  /\ emitted[1].n < emitted[2].n
  /\ ~registered[emitted[1].n].matched

(***************************************************************************)
(* Part XI.  Targets that take over a context.                              *)
(***************************************************************************)
\* #handleAttachedToTargetEvent has made the CdpTarget of a supported
\* target in this step.
HandlesAttached(targetId) ==
  targetId \in (DOMAIN cdpTargets') \ (DOMAIN cdpTargets)

\* C28: when Target.attachedToTarget arrives for a supported target whose
\* id is that of a stored context, no context is created: the ids of the
\* contexts and their parents, hence their children, are the same, and of
\* the context only the cdpTarget changes, to the new CdpTarget, which was
\* created with the parentId of the context; when no context has the id,
\* exactly one context is added, with that id and no parent.
C28_AttachSwapsOrCreates ==
  [][\A t \in TargetIds :
       HandlesAttached(t) =>
         IF t \in DOMAIN contexts
           THEN /\ DOMAIN contexts' = DOMAIN contexts
                /\ \A c \in DOMAIN contexts \ {t} : contexts'[c] = contexts[c]
                /\ contexts'[t] = [contexts[t] EXCEPT !.cdpTarget = t]
                /\ contexts'[t].parentId = contexts[t].parentId
                /\ cdpTargets'[t] = contexts[t].parentId
           ELSE /\ DOMAIN contexts' = DOMAIN contexts \cup {t}
                /\ \A c \in DOMAIN contexts : contexts'[c] = contexts[c]
                /\ contexts'[t].parentId = Null
                /\ contexts'[t].cdpTarget = t
                /\ cdpTargets'[t] = Null]_vars

\* The target of a frame has attached while the context of the frame, a
\* child of a page, was stored with the target of the page: the context is
\* still the child of the page, with the target of the frame.
C28_Witness ==
  /\ "F1" \in DOMAIN cdpTargets
  /\ "F1" \in DOMAIN contexts
  /\ contexts["F1"].parentId = "P1"
  /\ contexts["F1"].cdpTarget = "F1"
  /\ cdpTargets["F1"] = "P1"
  /\ "P1" \in DOMAIN contexts /\ contexts["P1"].parentId = Null

(***************************************************************************)
(* Part XII.  Frames that change their process.  The browser attaches a     *)
(* new target with the id of the frame, on a new session, and then ends     *)
(* the session of the old one with a Target.detachedFromTarget that names   *)
(* the same id.  Specification: SwapSpec.                                    *)
(***************************************************************************)
\* How often the target of a frame is replaced
MaxMigrations == 1

\* The session of the n-th replacement of a target
MigratedSession(targetId, n) == <<targetId, n + 1>>

\* A replaced session: the execution contexts of its process and the last
\* script identifier issued on it
OldSession(targetId) ==
  [targetId |-> targetId,
   sessionId |-> MigratedSession(targetId, migrations[targetId]),
   executionContexts |->
     {r \in LiveContexts : executionContexts[r].target = targetId},
   scriptIds |-> cdpScriptIds[targetId]]

\* Target.attachedToTarget for a frame whose target is attached, and
\* #handleAttachedToTargetEvent: the target of the new process has the id
\* of the old one.
TargetReattached(targetId) ==
  /\ targetId \in FrameIds
  /\ browserTargets[targetId] = "attached"
  /\ migrations[targetId] < MaxMigrations
  /\ \A s \in oldSessions : s.targetId # targetId
  /\ migrations' = [migrations EXCEPT ![targetId] = @ + 1]
  /\ oldSessions' = oldSessions \cup {OldSession(targetId)}
  /\ IF /\ ParentSession(targetId) \in listeners
        /\ isValidTarget(targetId, TargetType(targetId))
       THEN /\ listeners' = listeners \cup
                 {MigratedSession(targetId, migrations[targetId] + 1)}
            /\ cdpTargets' = createCdpTarget(cdpTargets, contexts, targetId)
            /\ contexts' = attachContext(contexts, targetId, targetId)
            /\ InstallPreloadScripts(targetId)
       ELSE UNCHANGED <<listeners, cdpTargets, contexts, installed,
                        cdpScriptIds, preloadScripts>>
  /\ turn' = Event
  /\ responses' = {}
  /\ UNCHANGED <<browserTargets, frameParent, calls, closed, scriptCalls,
                 issuedScripts, frameDetached>>
  /\ UNCHANGED realmVars

\* Target.detachedFromTarget for a replaced session, and
\* #handleDetachedFromTargetEvent: the event names the id of the target,
\* which is the id of the target that replaced it.
OldSessionDetached(session) ==
  /\ session \in oldSessions
  /\ oldSessions' = oldSessions \ {session}
  /\ LET targetId == session.targetId
         heard == ParentSession(targetId) \in listeners
         store == IF heard
                    THEN handleDetachedFromTargetEvent(contexts, targetId)
                    ELSE contexts
     IN  /\ contexts' = store
         /\ Settle(store, calls)
         /\ CascadeDelete(contexts, store)
         /\ installed' =
              {script \in installed :
                 script.target = targetId =>
                   script.preloadScriptId > session.scriptIds}
         /\ preloadScripts' =
              IF heard THEN removeCdpPreloadScripts(preloadScripts, targetId)
              ELSE preloadScripts
  /\ DestroyContexts(session.executionContexts \cap LiveContexts)
  /\ turn' = Event
  /\ UNCHANGED <<browserTargets, frameParent, listeners, cdpTargets,
                 cdpScriptIds, scriptCalls, issuedScripts, realmCalls,
                 releases, migrations, frameDetached>>

SwapAttachPage == AttachPage /\ UNCHANGED swapVars
SwapAttachFrame == AttachRealmFrame /\ UNCHANGED swapVars
SwapAttachTarget == TargetAttached("F1") /\ UNCHANGED swapVars
SwapContextCreated == ExecutionContextCreated("F1") /\ UNCHANGED swapVars
SwapAddPreloadScript ==
  ProcessAddPreloadScript(Null, Absent) /\ UNCHANGED swapVars
SwapAddReply == AddReply /\ UNCHANGED swapVars
Reattach == \E f \in FrameIds : TargetReattached(f)
OldSessionEnds == \E session \in oldSessions : OldSessionDetached(session)

SwapNext ==
  /\ \/ SwapAttachPage
     \/ SwapAttachFrame
     \/ SwapAttachTarget
     \/ SwapContextCreated
     \/ SwapAddPreloadScript
     \/ SwapAddReply
     \/ Reattach
     \/ OldSessionEnds
  /\ UNCHANGED <<transportVars, unsupported, eventVars, inputVars, navVars>>

SwapSpec == Init /\ [][SwapNext]_vars

\* The realms the context of a replaced target has made of the execution
\* contexts of the new process
RealmsOfNewTarget(session) ==
  {r \in DOMAIN realmMap :
     /\ realmMap[r].browsingContextId = session.targetId
     /\ r \notin session.executionContexts}

\* The CDP scripts of a record that the new target has installed
ScriptsOfNewTarget(session, script) ==
  SelectSeq(preloadScripts[script].cdpPreloadScripts,
            LAMBDA c : /\ c.target = session.targetId
                       /\ c.preloadScriptId > session.scriptIds)

\* C29: after a target has attached with the id of a stored context, the
\* Target.detachedFromTarget that ends the session of the old target, and
\* names the same id, leaves the context stored as it is, with the realms
\* of the new target and the preload scripts the new target has installed.
C29_ContextOutlivesOldSession ==
  [][\A session \in oldSessions \ oldSessions' :
       findContext(session.targetId) =>
         /\ session.targetId \in DOMAIN contexts'
         /\ contexts'[session.targetId] = contexts[session.targetId]
         /\ RealmsOfNewTarget(session) \subseteq DOMAIN realmMap'
         /\ \A script \in DOMAIN preloadScripts :
              /\ script \in DOMAIN preloadScripts'
              /\ Range(ScriptsOfNewTarget(session, script)) \subseteq
                   Range(preloadScripts'[script].cdpPreloadScripts)]_vars

(***************************************************************************)
(* Part XIII.  Frames that leave their document, or their process.          *)
(* Specification: FrameSpec.                                                 *)
(***************************************************************************)
\* The Page.frameDetached that #handleFrameDetachedEvent gets, if the
\* session it arrives on has the listeners of the processor
HandledFrameEvent(frameId, reason) ==
  IF HostSession(frameParent[frameId]) \in listeners
    THEN [frameId |-> frameId, reason |-> reason,
          known |-> findContext(frameId)]
    ELSE NoFrameEvent

NoFrameDetached ==
  /\ frameDetached' = NoFrameEvent
  /\ UNCHANGED <<migrations, oldSessions>>

FrameAttachPage == AttachPage /\ NoFrameDetached
FrameAttachTarget == TargetAttached("F1") /\ NoFrameDetached
FrameDetachTarget == TargetDetached("F1") /\ NoFrameDetached
FrameAttaches ==
  /\ \/ AttachRealmFrame
     \/ AttachNestedFrame
  /\ NoFrameDetached
FrameDetaches ==
  \E f \in AllFrameIds, reason \in {"remove", "swap"} :
    /\ FrameDetached(f, reason)
    /\ frameDetached' = HandledFrameEvent(f, reason)
    /\ UNCHANGED <<migrations, oldSessions>>
OopifFrameDetaches ==
  /\ OopifFrameDetached("F1")
  /\ frameDetached' = HandledFrameEvent("F1", "remove")
  /\ UNCHANGED <<migrations, oldSessions>>
FrameContextCreated == ContextCreated /\ NoFrameDetached
FrameEvaluate == Evaluate /\ NoFrameDetached
FrameEvaluateReply == EvaluateReply /\ NoFrameDetached

FrameNext ==
  /\ \/ FrameAttachPage
     \/ FrameAttachTarget
     \/ FrameDetachTarget
     \/ FrameAttaches
     \/ FrameDetaches
     \/ OopifFrameDetaches
     \/ FrameContextCreated
     \/ FrameEvaluate
     \/ FrameEvaluateReply
  /\ UNCHANGED <<transportVars, unsupported, eventVars, inputVars, navVars>>

FrameSpec == Init /\ [][FrameNext]_vars

\* A function without the arguments of a set
Without(f, gone) == [x \in DOMAIN f \ gone |-> f[x]]

\* The realms of a set of contexts
RealmsOf(contextIds) ==
  {r \in DOMAIN realmMap : realmMap[r].browsingContextId \in contextIds}

\* The handles of a set of realms
HandlesOf(realmIds) ==
  {h \in DOMAIN knownHandlesToRealm : knownHandlesToRealm[h] \in realmIds}

\* C30: a Page.frameDetached deletes the context of its frame, with the
\* contexts below it, their realms and the handles of these, if and only if
\* its reason is not `swap`; when the reason is `swap`, or no context has
\* the id of the frame, the contexts, the realms and the handles are the
\* same after it.
C30_FrameDetachedDeletesUnlessSwap ==
  [][frameDetached' # NoFrameEvent =>
       LET event == frameDetached'
           gone == WithDescendants(contexts, {event.frameId})
       IN  IF event.reason # "swap" /\ findContext(event.frameId)
             THEN /\ contexts' = Without(contexts, gone)
                  /\ realmMap' = Without(realmMap, RealmsOf(gone))
                  /\ knownHandlesToRealm' =
                       Without(knownHandlesToRealm, HandlesOf(RealmsOf(gone)))
             ELSE /\ contexts' = contexts
                  /\ realmMap' = realmMap
                  /\ knownHandlesToRealm' = knownHandlesToRealm]_vars

\* The frame F1, whose context was stored, has left the document of P1 with
\* the frame inside it; its execution context had an object, and neither
\* the realm nor the handle is stored, while P1 is.
C30_Witness ==
  /\ frameDetached = [frameId |-> "F1", reason |-> "remove", known |-> TRUE]
  /\ frameParent["F2"] = Removed
  /\ DOMAIN contexts = {"P1"}
  /\ \E r \in RealmIds, h \in Handles :
       /\ executionContexts[r].frame = "F1"
       /\ objects[h].context = r
       /\ r \notin DOMAIN realmMap
       /\ h \notin DOMAIN knownHandlesToRealm

(***************************************************************************)
(* Part XIV.  Targets that detach, with what hangs on them: the contexts    *)
(* below, realms, handles and preload scripts.  Specification: DetachSpec.  *)
(***************************************************************************)
\* The mapper's tab and the pages attach and detach; the frame F1 stays in
\* the process of its page.
TeardownAttach == \E t \in {selfTargetId} \cup PageIds : TargetAttached(t)
TeardownDetach == \E t \in {selfTargetId} \cup PageIds : TargetDetached(t)
TeardownAttachFrame == AttachRealmFrame
TeardownAddPreloadScript == ProcessAddPreloadScript(Null, Absent)
TeardownAddReply == \E i \in 1..MaxCalls : AddScriptReply(i, TRUE)

DetachNext ==
  /\ \/ TeardownAttach
     \/ TeardownDetach
     \/ TeardownAttachFrame
     \/ ContextCreated
     \/ Evaluate
     \/ EvaluateReply
     \/ TeardownAddPreloadScript
     \/ TeardownAddReply
  /\ UNCHANGED <<transportVars, unsupported, swapVars, eventVars, inputVars,
                 navVars>>

DetachSpec == Init /\ [][DetachNext]_vars

\* Target.detachedFromTarget for the target has reached the processor in
\* this step.
DetachProcessed(targetId) ==
  /\ browserTargets[targetId] # "closed"
  /\ browserTargets'[targetId] = "closed"
  /\ ParentSession(targetId) \in listeners

\* The (target, cdpPreloadScriptId) pairs of the records, and those of one
\* target
ScriptPairs(storage, targetId) ==
  {<<script, pair>> \in
     UNION {{<<x, c>> : c \in Range(storage[x].cdpPreloadScripts)} :
              x \in DOMAIN storage} :
     pair.target = targetId}

\* C31: when Target.detachedFromTarget of a target has been processed, the
\* context of the target and the contexts below it are not stored, no realm
\* is of one of them, no handle is of such a realm and no record has a CDP
\* script of the target, while every record is kept with the CDP scripts
\* of the other targets; when the processor has neither a context nor a
\* CdpTarget of that id, the detach changes nothing and no command fails.
C31_DetachTearsDownTarget ==
  [][\A t \in TargetIds :
       DetachProcessed(t) =>
         LET gone == IF findContext(t) THEN WithDescendants(contexts, {t})
                     ELSE {}
             realms == RealmsOf(gone)
         IN  /\ DOMAIN contexts' \cap (gone \cup {t}) = {}
             /\ \A r \in DOMAIN realmMap' :
                  realmMap'[r].browsingContextId \notin gone \cup {t}
             /\ \A h \in DOMAIN knownHandlesToRealm' :
                  knownHandlesToRealm'[h] \notin realms
             /\ ScriptPairs(preloadScripts', t) = {}
             /\ DOMAIN preloadScripts' = DOMAIN preloadScripts
             /\ \A other \in TargetIds \ {t} :
                  ScriptPairs(preloadScripts', other) =
                    ScriptPairs(preloadScripts, other)
             /\ (~findContext(t) /\ t \notin DOMAIN cdpTargets) =>
                  /\ contexts' = contexts
                  /\ realmMap' = realmMap
                  /\ knownHandlesToRealm' = knownHandlesToRealm
                  /\ preloadScripts' = preloadScripts
                  /\ responses' = {}]_vars

\* The page P1 has detached: it had the frame F1 below it, a realm with a
\* handle and a CDP script of a record that P2 carries too; the record is
\* left with the script of P2 alone.
C31_Witness ==
  /\ browserTargets["P1"] = "closed"
  /\ browserTargets["P2"] = "attached"
  /\ frameParent["F1"] = Removed
  /\ DOMAIN contexts = {"P2"}
  /\ \E r \in RealmIds, h \in Handles :
       /\ executionContexts[r].target = "P1"
       /\ objects[h].context = r
       /\ r \notin DOMAIN realmMap
       /\ h \notin DOMAIN knownHandlesToRealm
  /\ \E x \in DOMAIN preloadScripts :
       /\ Len(preloadScripts[x].cdpPreloadScripts) = 1
       /\ preloadScripts[x].cdpPreloadScripts[1].target = "P2"
       /\ \E script \in issuedScripts : cdpScriptIds["P1"] > 0

(***************************************************************************)
(* Part XV.  Script commands and the `unblocked` signal.  The command       *)
(* awaits #getRealm, then Realm.scriptEvaluate or Realm.callFunction looks  *)
(* up the context of the realm and awaits its `unblocked`; the two methods  *)
(* begin alike, and one path stands for both.  Specification: UnblockSpec.  *)
(***************************************************************************)
\* Realm.browsingContextId of a realm the command holds, which is the frame
\* of its execution context; the realm may have left the storage.
BrowsingContextIdOf(realmId) == executionContexts[realmId].frame

\* A mutant of scriptEvaluateStarts: `unblocked` is not awaited.
scriptEvaluateStarts_NoAwait(store, context) ==
  IF context \notin DOMAIN store THEN NoSuchFrame ELSE "send"

\* Realm.scriptEvaluate and Realm.callFunction, up to the evaluator:
\* getContext throws `no such frame`, awaitUnblocked is pending or has
\* resolved.
scriptEvaluateStarts(store, context) ==
  IF context \notin DOMAIN store THEN NoSuchFrame
  ELSE IF ~awaitUnblocked(store, context) THEN "await"
  ELSE "send"

\* process_script_evaluate and process_script_callFunction, up to the await
\* of #getRealm
ProcessScriptCommand(target, resultOwnership) ==
  /\ Len(realmCalls) + Len(evaluations) < MaxCalls
  /\ turn' = [op |-> "script.evaluate", target |-> target,
              resultOwnership |-> resultOwnership]
  /\ LET found == getRealm(target)
     IN  IF found.status # Success
           THEN /\ responses' = {RealmResponse("script.evaluate", target,
                                   found.status, Null, << >>)}
                /\ UNCHANGED realmCalls
           ELSE /\ responses' = {}
                /\ realmCalls' =
                     Append(realmCalls,
                       RealmCall("getRealm", target, found.realm,
                                 resultOwnershipOf(resultOwnership),
                                 << >>, << >>))
  /\ evaluated' = {}
  /\ UNCHANGED <<blocked, evaluations>>
  /\ NoNavigation
  /\ UNCHANGED <<executionContexts, objects, realmMap, knownHandlesToRealm,
                 releases>>
  /\ UNCHANGED <<browserTargets, frameParent, listeners, cdpTargets, contexts,
                 calls, closed>>
  /\ UNCHANGED scriptVars

\* #getRealm has resolved: Realm.scriptEvaluate or Realm.callFunction runs
\* up to its first await.
RealmScriptEvaluate(i) ==
  /\ i \in 1..Len(realmCalls)
  /\ realmCalls[i].method = "getRealm"
  /\ LET call == realmCalls[i]
         context == BrowsingContextIdOf(call.realm)
         starts == scriptEvaluateStarts(contexts, context)
     IN  /\ turn' = [op |-> "Realm.scriptEvaluate", realm |-> call.realm,
                     context |-> context]
         /\ responses' =
              IF starts = NoSuchFrame
                THEN {RealmResponse("script.evaluate", call.target,
                                    NoSuchFrame, call.realm, << >>)}
                ELSE {}
         /\ evaluations' =
              IF starts = "await"
                THEN Append(evaluations,
                       Evaluation(call.target, call.realm, context,
                                  call.resultOwnership))
                ELSE evaluations
         /\ realmCalls' =
              IF starts = "send"
                THEN Append(RemoveAt(realmCalls, i),
                            [call EXCEPT !.method = "evaluate"])
                ELSE RemoveAt(realmCalls, i)
  /\ evaluated' = {}
  /\ UNCHANGED blocked
  /\ NoNavigation
  /\ UNCHANGED <<executionContexts, objects, realmMap, knownHandlesToRealm,
                 releases>>
  /\ UNCHANGED <<browserTargets, frameParent, listeners, cdpTargets, contexts,
                 calls, closed>>
  /\ UNCHANGED scriptVars

UnblockCommand ==
  \E target \in {RealmTarget(r) : r \in RealmIds}
                  \cup {ContextTarget(id) : id \in {"P1", "F1"}} :
    ProcessScriptCommand(target, Given("none"))
UnblockStarts == \E i \in 1..MaxCalls : RealmScriptEvaluate(i)
\* The browser answers Runtime.evaluate with a value that is no object.
UnblockReply ==
  /\ \E i \in 1..MaxCalls : EvaluateReplied(i, FALSE)
  /\ NoNavigation /\ NoEvaluation

UnblockNext ==
  /\ \/ CancelAttachPage
     \/ CancelUnblocked
     \/ CancelDetachPage
     \/ CancelAttachFrame
     \/ CancelDetachFrame
     \/ CancelContextCreated
     \/ UnblockCommand
     \/ UnblockStarts
     \/ UnblockReply
  /\ UNCHANGED <<transportVars, unsupported, swapVars, eventVars, inputVars>>

UnblockSpec == Init /\ [][UnblockNext]_vars

\* The Runtime.evaluate and Runtime.callFunctionOn sent in this step
EvaluateCalls(cs) == SelectSeq(cs, LAMBDA call : call.method = "evaluate")
SentToRuntime ==
  {EvaluateCalls(realmCalls')[i] :
     i \in (Len(EvaluateCalls(realmCalls)) + 1)..
           Len(EvaluateCalls(realmCalls'))}

\* C32: script.evaluate and script.callFunction send Runtime.evaluate or
\* Runtime.callFunctionOn for a realm only when the context of the realm is
\* stored and its `unblocked` is set; when the context of the realm is not
\* stored as Realm.scriptEvaluate or Realm.callFunction starts, the command
\* fails with `no such frame` and nothing is sent.
C32_NoEvaluateBeforeUnblocked ==
  [][/\ \A call \in SentToRuntime :
          LET context == BrowsingContextIdOf(call.realm)
          IN  /\ context \in DOMAIN contexts'
              /\ contexts'[context].cdpTarget \notin blocked'
     /\ (/\ turn'.op = "Realm.scriptEvaluate"
         /\ ~findContext(turn'.context))
        => /\ \E r \in responses' :
                /\ r.realm = turn'.realm
                /\ r.status = NoSuchFrame
           /\ SentToRuntime = {}
           /\ evaluations' = evaluations
           /\ Len(realmCalls') = Len(realmCalls) - 1]_vars

\* Realm.scriptEvaluate has started while the target of the context of its
\* realm is blocked: the evaluation awaits, and nothing was sent.
C32_Witness ==
  /\ turn.op = "Realm.scriptEvaluate"
  /\ findContext(turn.context)
  /\ contexts[turn.context].cdpTarget \in blocked
  /\ \E i \in 1..Len(evaluations) : evaluations[i].realm = turn.realm
  /\ EvaluateCalls(realmCalls) = << >>
  /\ responses = {}

(***************************************************************************)
(* Part XVI.  Realm.disown and the errors of Runtime.releaseObject.         *)
(* The answers of the browser are named by their message: `Invalid remote   *)
(* object id` is the error with code -32000 and that message.               *)
(***************************************************************************)
\* The i-th pending command is a script.disown, and the reply to its
\* Runtime.releaseObject arrives in this step.
DisownReplied(i) ==
  /\ i \in 1..Len(realmCalls)
  /\ realmCalls[i].method = "disown"
  /\ turn' = Reply
  /\ \/ /\ Len(realmCalls[i].handles) = 1
        /\ realmCalls' = RemoveAt(realmCalls, i)
     \/ /\ Len(realmCalls') = Len(realmCalls)
        /\ realmCalls'[i].handles = Tail(realmCalls[i].handles)
        /\ \A j \in 1..Len(realmCalls) \ {i} : realmCalls'[j] = realmCalls[j]

\* C33: in Realm.disown of a handle of the realm, the error `Invalid remote
\* object id` of Runtime.releaseObject is swallowed, the disown returns and
\* the handle leaves knownHandlesToRealm; any other error makes the command
\* fail and leaves the handles as recorded; no handle leaves before the
\* reply to its Runtime.releaseObject.
C33_InvalidObjectIdSwallowed ==
  [][/\ \A i \in 1..Len(realmCalls) :
          DisownReplied(i) =>
            LET call == realmCalls[i]
                handle == Head(call.handles)
                answer == releaseObject(call.session, handle)
            IN  IF answer \in {"released", "Invalid remote object id"}
                  THEN /\ knownHandlesToRealm' =
                            Without(knownHandlesToRealm, {handle})
                       /\ \A r \in responses' : r.status = Success
                       /\ (Len(call.handles) = 1 /\ ~call.failed) =>
                            \E r \in responses' :
                              /\ r.method = "script.disown"
                              /\ r.target = call.target
                  ELSE /\ knownHandlesToRealm' = knownHandlesToRealm
                       /\ \A r \in responses' : r.status = UnknownError
                       /\ ~call.failed =>
                            \E r \in responses' :
                              /\ r.method = "script.disown"
                              /\ r.target = call.target
     /\ turn'.op = "script.disown" =>
          knownHandlesToRealm' = knownHandlesToRealm]_vars

\* A script.disown that listed a handle of its realm twice has succeeded on
\* an open session: the second Runtime.releaseObject named an object that
\* the first had released, and the handle is recorded no more.
C33_Witness ==
  /\ turn = Reply
  /\ \E r \in DisownResults :
       /\ r.status = Success
       /\ r.realm \in DOMAIN realmMap
       /\ r.realm \in LiveContexts
       /\ SessionOpen(realmMap[r.realm].cdpSessionId)
       /\ \E h \in Handles :
            /\ r.handles = <<h, h>>
            /\ objects[h].state = "released"
            /\ objects[h].context = r.realm
            /\ h \notin DOMAIN knownHandlesToRealm

(***************************************************************************)
(* Part XVII.  The InputState of the contexts of two pages, one of which    *)
(* has a frame.  Specification: SharedInputSpec.                            *)
(***************************************************************************)
\* A pointer source that presses, with one of two pointer types
PointerParams ==
  {<<SourceActions("pointer", "p", Given(pointerType), <<"pointerDown">>)>> :
     pointerType \in {"mouse", "touch"}}

SharedContexts == {"P1", "F1", "P2"}

SharedAttachPage ==
  /\ \E t \in PageIds : TargetAttached(t)
  /\ UNCHANGED inputVars
SharedPerformActions ==
  \E context \in SharedContexts, params \in PointerParams :
    ProcessPerformActions(context, params)
SharedReleaseActions ==
  \E context \in SharedContexts : ProcessReleaseActions(context)

SharedInputNext ==
  /\ \/ SharedAttachPage
     \/ InputAttachFrame
     \/ SharedPerformActions
     \/ TickDispatched
     \/ SharedReleaseActions
     \/ ReleaseDispatched
  /\ UNCHANGED <<transportVars, unsupported, swapVars, eventVars, navVars>>

SharedInputSpec == Init /\ [][SharedInputNext]_vars

\* The InputStates other than that of one top-level context are the same
\* after the step.
OtherInputStatesKept(top) ==
  \A t \in (DOMAIN inputStates \cup DOMAIN inputStates') \ {top} :
    /\ t \in DOMAIN inputStates
    /\ t \in DOMAIN inputStates'
    /\ inputStates'[t] = inputStates[t]

\* C34: an input.performActions or input.releaseActions on a context reads
\* and updates the InputState of the top-level context above it, and no
\* other: the sources a command on a frame names are sources of the state
\* of its page, with the pointer type they were first used with there, and
\* the states of other top-level contexts stay as they are, also when the
\* actions are dispatched.
C34_InputStatePerTopLevelContext ==
  [][/\ (/\ turn'.op \in {"input.performActions", "input.releaseActions"}
         /\ findContext(turn'.id))
        => LET top == TopOfTurn(turn')
               before == getInputState(inputStates, top)
           IN  /\ isTopLevelContext(contexts[top])
               /\ top \in DOMAIN inputStates'
               /\ OtherInputStatesKept(top)
               /\ \A k \in DOMAIN before.sources :
                    /\ k \in DOMAIN inputStates'[top].sources
                    /\ inputStates'[top].sources[k] = before.sources[k]
               /\ turn'.op = "input.performActions" =>
                    \A n \in 1..Len(turn'.actions) :
                      LET source == turn'.actions[n]
                      IN  /\ source.id \in DOMAIN inputStates'[top].sources
                          /\ IF source.id \in DOMAIN before.sources
                                  /\ before.sources[source.id].subtype #
                                       AskedSubtype(source)
                               THEN \E r \in responses' :
                                      r.status = InvalidArgument
                               ELSE inputStates'[top].sources[source.id]
                                      .subtype = AskedSubtype(source)
     /\ (turn' = Reply /\ inputCalls # << >>)
        => /\ isTopLevelContext(contexts[inputCalls[1].top])
           /\ OtherInputStatesKept(inputCalls[1].top)]_vars

\* A command on the frame F1 has failed because the page P1 had used the
\* pointer source with another pointer type, while the page P2 uses the
\* source with that type.
C34_Witness ==
  /\ turn.op = "input.performActions"
  /\ turn.id = "F1"
  /\ \E r \in responses : r.status = InvalidArgument
  /\ DOMAIN inputStates = {"P1", "P2"}
  /\ inputStates["P1"].sources["p"].subtype = "mouse"
  /\ inputStates["P2"].sources["p"].subtype = "touch"
  /\ inputStates["P2"].cancelList # << >>

(***************************************************************************)
(* Part XVIII.  input.releaseActions whose dispatch may fail.               *)
(* Specification: ReleaseSpec.                                              *)
(***************************************************************************)
\* A mutant of ReleaseFailed: the InputState is deleted although the
\* dispatch has failed.
ReleaseFailed_Deletes ==
  /\ inputCalls # << >>
  /\ inputCalls[1].method = "releaseActions"
  /\ LET call == inputCalls[1]
     IN  /\ \E n \in 0..(Len(Head(call.ticks)) - 1) :
              dispatched' = SubSeq(Head(call.ticks), 1, n)
         /\ inputStates' = deleteInputState(inputStates, call.top)
         /\ responses' =
              {Response("input.releaseActions", call.context, UnknownError)}
  /\ inputCalls' = << >>
  /\ turn' = Reply
  /\ UNCHANGED <<performed, firstUse>>
  /\ UNCHANGED <<browserTargets, frameParent, listeners, cdpTargets, contexts,
                 calls, closed>>
  /\ UNCHANGED <<scriptVars, realmVars>>

\* process_input_releaseActions when the awaited dispatchTickActions
\* rejects: some of the undo actions, not all, have reached the browser,
\* the command fails, and the statement after the await, which deletes the
\* InputState, is not reached.
ReleaseFailed ==
  /\ inputCalls # << >>
  /\ inputCalls[1].method = "releaseActions"
  /\ LET call == inputCalls[1]
     IN  /\ \E n \in 0..(Len(Head(call.ticks)) - 1) :
              dispatched' = SubSeq(Head(call.ticks), 1, n)
         /\ responses' =
              {Response("input.releaseActions", call.context, UnknownError)}
  /\ inputCalls' = << >>
  /\ turn' = Reply
  /\ UNCHANGED <<inputStates, performed, firstUse>>
  /\ UNCHANGED <<browserTargets, frameParent, listeners, cdpTargets, contexts,
                 calls, closed>>
  /\ UNCHANGED <<scriptVars, realmVars>>

ReleaseNext ==
  /\ \/ InputAttachPage
     \/ InputAttachFrame
     \/ PerformActions
     \/ TickDispatched
     \/ ReleaseActions
     \/ ReleaseDispatched
     \/ ReleaseFailed
  /\ UNCHANGED <<transportVars, unsupported, swapVars, eventVars, navVars>>

ReleaseSpec == Init /\ [][ReleaseNext]_vars

\* The index of the first source of a command that has the id
FirstNamed(params, id) ==
  CHOOSE n \in 1..Len(params) :
    /\ params[n].id = id
    /\ \A m \in 1..(n - 1) : params[m].id # id

\* C35: the InputState of a top-level context is deleted only by the step
\* in which the dispatch of an input.releaseActions on it completes with
\* success, all undo actions dispatched; an input.performActions on a
\* top-level context without InputState starts from a new one: its
\* cancelList is empty, its sources are those the command names, and a
\* pointer source has the subtype the command first names for it.
C35_DeletedAfterDispatchThenFresh ==
  [][/\ \A top \in DOMAIN inputStates \ DOMAIN inputStates' :
          /\ inputCalls # << >>
          /\ inputCalls[1].method = "releaseActions"
          /\ inputCalls[1].top = top
          /\ turn' = Reply
          /\ dispatched' = Head(inputCalls[1].ticks)
          /\ responses' = {Response("input.releaseActions",
                                    inputCalls[1].context, Success)}
     /\ (/\ turn'.op = "input.releaseActions"
         /\ findContext(turn'.id))
        => TopOfTurn(turn') \in DOMAIN inputStates'
     /\ (/\ turn'.op = "input.performActions"
         /\ findContext(turn'.id)
         /\ TopOfTurn(turn') \notin DOMAIN inputStates)
        => LET fresh == inputStates'[TopOfTurn(turn')]
               params == turn'.actions
           IN  /\ fresh.cancelList = << >>
               /\ DOMAIN fresh.sources \subseteq
                    {params[n].id : n \in 1..Len(params)}
               /\ params[1].id \in DOMAIN fresh.sources
               /\ \A id \in DOMAIN fresh.sources :
                    LET source == params[FirstNamed(params, id)]
                    IN  fresh.sources[id].subtype =
                          IF source.type = "pointer"
                            THEN AskedSubtype(source) ELSE Null]_vars

\* After a release, the pointer source first used as mouse on the page is
\* a touch source of the new InputState of the page.
C35_Witness ==
  /\ [top |-> "P1", id |-> "p", subtype |-> "mouse"] \in firstUse
  /\ "P1" \in DOMAIN inputStates
  /\ "p" \in DOMAIN inputStates["P1"].sources
  /\ inputStates["P1"].sources["p"].subtype = "touch"
  /\ inputStates["P1"].cancelList # << >>

\* C36, as stated: when the dispatch of an input.releaseActions fails, the
\* command fails and the InputState of the top-level context is as it was
\* before the command: it is not deleted, and its cancelList holds the undo
\* actions of the actions performed, the newest first.
C36_FailedReleaseKeepsInputState ==
  [][\A r \in responses' :
       (/\ r.method = "input.releaseActions"
        /\ r.status = UnknownError)
       => LET top == TopOf(contexts, r.context, Cardinality(DOMAIN contexts))
          IN  /\ top \in DOMAIN inputStates'
              /\ inputStates'[top].cancelList =
                   NewestFirstUndo(IF top \in DOMAIN performed
                                     THEN performed[top] ELSE << >>)]_vars

(***************************************************************************)
(* Part XIX.  An input.performActions that runs while an                    *)
(* input.releaseActions on the same top-level context awaits its dispatch.  *)
(* Commands are not serialized: each is a chain of turns of the one loop.   *)
(* Specification: OverlapSpec.                                              *)
(***************************************************************************)
\* A key source that presses one key, or one key after another
KeyParams ==
  {<<SourceActions("key", "k", Absent, actions)>> :
     actions \in {<<"keyDownA">>, <<"keyDownA", "keyDownB">>}}

\* A pending performActions whose dispatcher holds an InputState that is
\* no longer the one the InputStateManager has for the top-level context
Detached(call) ==
  IF call.method = "performActions" THEN [call EXCEPT !.top = Null] ELSE call

\* The sequence without its n-th element, or with another in its place
ReplaceAt(seq, n, with) ==
  SubSeq(seq, 1, n - 1) \o with \o SubSeq(seq, n + 1, Len(seq))

\* process_input_performActions, up to the await of the dispatcher, while
\* the releaseActions on the top-level context awaits its dispatch: the
\* InputStateManager still has the InputState, and the command gets it.
OverlapPerformActions ==
  \E context \in InputContexts, params \in KeyParams :
    /\ Len(inputCalls) = 1
    /\ inputCalls[1].method = "releaseActions"
    /\ findContext(context)
    /\ LET top == topContext(contexts, context)
           inputState == getInputState(inputStates, top)
           r == getActionsByTick(params, inputState.sources, << >>, 1)
       IN  /\ top = inputCalls[1].top
           /\ Len(inputState.cancelList) + ActedCount(params) <= MaxUndo
           /\ ~r.threw
           /\ r.actionsByTick # << >>
           /\ inputStates' =
                setInputState(inputStates, top,
                  [inputState EXCEPT !.sources = r.sources])
           /\ firstUse' = FirstUses(firstUse, top, r.sources)
           /\ inputCalls' =
                Append(inputCalls,
                       InputCall("performActions", context, top,
                                 r.actionsByTick))
    /\ turn' = [op |-> "input.performActions", id |-> context,
                actions |-> params]
    /\ dispatched' = << >>
    /\ UNCHANGED <<performed, responses>>
    /\ UNCHANGED <<browserTargets, frameParent, listeners, cdpTargets,
                   contexts, calls, closed>>
    /\ UNCHANGED <<scriptVars, realmVars>>

\* ActionDispatcher.dispatchActions: the next tick of a pending
\* performActions is dispatched, and the undo actions are put at the head
\* of the cancelList of the InputState the dispatcher holds.
OverlapTickDispatched ==
  \E n \in 1..Len(inputCalls) :
    /\ inputCalls[n].method = "performActions"
    /\ LET call == inputCalls[n]
           top == topContext(contexts, call.context)
           acted == Acted(Head(call.ticks))
           undo == [i \in 1..Len(acted) |->
                      ActionOption(acted[i].id, InverseOf(acted[i].action))]
       IN  /\ dispatched' = acted
           /\ inputStates' =
                IF call.top = Null THEN inputStates
                ELSE setInputState(inputStates, call.top,
                       [getInputState(inputStates, call.top) EXCEPT
                          !.cancelList = Reverse(undo) \o @])
           /\ performed' =
                [t \in DOMAIN performed \cup {top} |->
                   IF t = top
                     THEN (IF t \in DOMAIN performed THEN performed[t]
                           ELSE << >>) \o acted
                     ELSE performed[t]]
           /\ IF Tail(call.ticks) = << >>
                THEN /\ inputCalls' = ReplaceAt(inputCalls, n, << >>)
                     /\ responses' = responses \cup
                          {Response("input.performActions", call.context,
                                    Success)}
                ELSE /\ inputCalls' =
                          ReplaceAt(inputCalls, n,
                                    <<[call EXCEPT !.ticks = Tail(call.ticks)]>>)
                     /\ UNCHANGED responses
    /\ turn' = Reply
    /\ UNCHANGED firstUse
    /\ UNCHANGED <<browserTargets, frameParent, listeners, cdpTargets,
                   contexts, calls, closed>>
    /\ UNCHANGED <<scriptVars, realmVars>>

\* process_input_releaseActions after the await: the undo actions the
\* command found have been dispatched, and the InputState of the top-level
\* context is deleted, with whatever a performActions has put in it since.
OverlapReleaseDispatched ==
  /\ inputCalls # << >>
  /\ inputCalls[1].method = "releaseActions"
  /\ LET call == inputCalls[1]
         undone == Len(Head(call.ticks))
     IN  /\ dispatched' = Head(call.ticks)
         /\ inputStates' = deleteInputState(inputStates, call.top)
         /\ performed' =
              [t \in DOMAIN performed |->
                 IF t = call.top
                   THEN SubSeq(performed[t], undone + 1, Len(performed[t]))
                   ELSE performed[t]]
         /\ responses' = responses \cup
              {Response("input.releaseActions", call.context, Success)}
         /\ inputCalls' =
              [i \in 1..(Len(inputCalls) - 1) |-> Detached(inputCalls[i + 1])]
  /\ turn' = Reply
  /\ UNCHANGED firstUse
  /\ UNCHANGED <<browserTargets, frameParent, listeners, cdpTargets, contexts,
                 calls, closed>>
  /\ UNCHANGED <<scriptVars, realmVars>>

\* Every action performed on the pages and not undone has its undo action
\* in the cancelList of the page: the commands are followed up to the first
\* state in which this fails.
NothingLost ==
  \A top \in DOMAIN performed :
    Len(performed[top]) = Len(getInputState(inputStates, top).cancelList)

OverlapPerform ==
  /\ NothingLost
  /\ \E params \in KeyParams : ProcessPerformActions("P1", params)
OverlapRelease ==
  /\ NothingLost
  /\ \E context \in InputContexts : ProcessReleaseActions(context)

OverlapNext ==
  /\ \/ InputAttachPage
     \/ InputAttachFrame
     \/ OverlapPerform
     \/ OverlapRelease
     \/ OverlapPerformActions
     \/ OverlapTickDispatched
     \/ OverlapReleaseDispatched
  /\ UNCHANGED <<transportVars, unsupported, swapVars, eventVars, navVars>>

OverlapSpec == Init /\ [][OverlapNext]_vars

\* An input.releaseActions and an input.performActions that ran while it
\* was pending have both returned with success.
BothCompleted ==
  /\ inputCalls = << >>
  /\ \E r \in responses :
       r.method = "input.releaseActions" /\ r.status = Success
  /\ \E r \in responses :
       r.method = "input.performActions" /\ r.status = Success

\* C37, as stated: when an input.performActions has run while an
\* input.releaseActions on the same top-level context awaited its dispatch
\* and both have completed, the InputState of the top-level context has an
\* undo action for every action performed and not undone, and the sources
\* of those actions.
C37_OverlappingPerformKept ==
  BothCompleted
  => \A top \in DOMAIN performed :
       \A i \in 1..Len(performed[top]) :
         /\ top \in DOMAIN inputStates
         /\ performed[top][i].id \in DOMAIN inputStates[top].sources
         /\ \E j \in 1..Len(inputStates[top].cancelList) :
              inputStates[top].cancelList[j] =
                ActionOption(performed[top][i].id,
                             InverseOf(performed[top][i].action))

(***************************************************************************)
(* Part XX.  Target.attachedToTarget of a target that is no browsing        *)
(* context: the self target, or a target that is neither page nor iframe.   *)
(* With Target.setAutoAttach({waitForDebuggerOnStart: true}) it waits for   *)
(* the debugger.  Specification: UnsupportedSpec.                           *)
(***************************************************************************)
WorkerIds == {"W1", "W2"}
\* Target.TargetInfo.type of the targets of WorkerIds
WorkerType == "service_worker"

\* A CDP command and the session it is sent on
SessionCommand(method, session) == [method |-> method, session |-> session]

\* targetCdpClient.sendCommand('Runtime.runIfWaitingForDebugger'): the
\* promise chain of the handler, with the parent session it was called
\* with, the commands sent, their outcomes and whether an error was logged
runIfWaitingForDebugger(targetId, parentSession) ==
  [parent |-> parentSession,
   sent |-> <<SessionCommand("Runtime.runIfWaitingForDebugger",
                             SessionOf(targetId))>>,
   replies |-> << >>,
   logged |-> FALSE]

\* A mutant of chainSettles: Target.detachFromTarget is sent whatever the
\* outcome of Runtime.runIfWaitingForDebugger.
chainSettles_DetachAnyway(chain, succeeded) ==
  LET replied == [chain EXCEPT
                    !.replies = Append(@, IF succeeded THEN "ok" ELSE "error"),
                    !.logged = @ \/ ~succeeded]
  IN  IF Len(chain.sent) = 1
        THEN [replied EXCEPT
                !.sent = Append(@, SessionCommand("Target.detachFromTarget",
                                                  chain.parent))]
        ELSE replied

\* .then(() => parentSessionCdpClient.sendCommand('Target.detachFromTarget',
\* params)).catch((error) => this.#logger?.(LogType.system, error)): the
\* chain when the command it waits for has succeeded or failed
chainSettles(chain, succeeded) ==
  LET replied == [chain EXCEPT
                    !.replies = Append(@, IF succeeded THEN "ok" ELSE "error")]
  IN  IF ~succeeded THEN [replied EXCEPT !.logged = TRUE]
      ELSE IF Len(chain.sent) = 1
        THEN [replied EXCEPT
                !.sent = Append(@, SessionCommand("Target.detachFromTarget",
                                                  chain.parent))]
      ELSE replied

\* The chains with that of a target added
WithChain(chains, targetId, chain) ==
  [t \in DOMAIN chains \cup {targetId} |->
     IF t = targetId THEN chain ELSE chains[t]]

\* Target.attachedToTarget of a page
UnsupportedAttachPage ==
  /\ \E t \in PageIds : TargetAttached(t)
  /\ UNCHANGED unsupported

\* Target.attachedToTarget of the self target
SelfAttached ==
  /\ TargetAttached(selfTargetId)
  /\ unsupported' =
       IF /\ ParentSession(selfTargetId) \in listeners
          /\ ~isValidTarget(selfTargetId, TargetType(selfTargetId))
         THEN WithChain(unsupported, selfTargetId,
                runIfWaitingForDebugger(selfTargetId,
                                        ParentSession(selfTargetId)))
         ELSE unsupported

\* Target.attachedToTarget of a worker, on the browser session or on that
\* of a page: #handleAttachedToTargetEvent when #isValidTarget is false
WorkerAttached ==
  \E w \in WorkerIds, parentSession \in listeners :
    /\ w \notin DOMAIN unsupported
    /\ ~isValidTarget(w, WorkerType)
    /\ unsupported' =
         WithChain(unsupported, w, runIfWaitingForDebugger(w, parentSession))
    /\ turn' = Event
    /\ responses' = {}
    /\ UNCHANGED <<browserTargets, frameParent, listeners, cdpTargets,
                   contexts, calls, closed>>
    /\ UNCHANGED <<scriptVars, realmVars>>

\* The browser answers the command a chain waits for, or the command fails.
DebuggerCommandSettles ==
  \E t \in DOMAIN unsupported, succeeded \in BOOLEAN :
    /\ Len(unsupported[t].replies) < Len(unsupported[t].sent)
    /\ ~unsupported[t].logged
    /\ unsupported' =
         [unsupported EXCEPT ![t] = chainSettles(@, succeeded)]
    /\ turn' = Reply
    /\ responses' = {}
    /\ UNCHANGED <<browserTargets, frameParent, listeners, cdpTargets,
                   contexts, calls, closed>>
    /\ UNCHANGED <<scriptVars, realmVars>>

UnsupportedNext ==
  /\ \/ UnsupportedAttachPage
     \/ SelfAttached
     \/ WorkerAttached
     \/ DebuggerCommandSettles
  /\ UNCHANGED <<transportVars, swapVars, eventVars, inputVars, navVars>>

UnsupportedSpec == Init /\ [][UnsupportedNext]_vars

\* The chain of a target is as the claim has it: the first command is
\* Runtime.runIfWaitingForDebugger on the session of the target; a second,
\* if any, is Target.detachFromTarget on the parent session, and the first
\* has succeeded; an error is logged exactly when a command has failed,
\* and nothing is sent after it.
ChainInOrder(chains, t) ==
  LET chain == chains[t]
  IN  /\ Len(chain.sent) \in {1, 2}
      /\ chain.sent[1] =
           SessionCommand("Runtime.runIfWaitingForDebugger", SessionOf(t))
      /\ Len(chain.sent) = 2 =>
           /\ chain.sent[2] =
                SessionCommand("Target.detachFromTarget", chain.parent)
           /\ chain.replies # << >>
           /\ chain.replies[1] = "ok"
      /\ (chain.replies # << >> /\ chain.replies[1] = "error") =>
           Len(chain.sent) = 1
      /\ chain.logged <=>
           \E i \in 1..Len(chain.replies) : chain.replies[i] = "error"
      /\ Len(chain.replies) <= Len(chain.sent)

\* C38: the handler of Target.attachedToTarget of the self target or of a
\* target that is neither page nor iframe sends
\* Runtime.runIfWaitingForDebugger on the session of the target and
\* creates no context, no CdpTarget and no listener; Target.detachFromTarget
\* is sent on the parent session in the step in which that command
\* succeeds and in no other; a failure of either command is logged and
\* changes nothing else.
C38_UnsupportedTargetReleased ==
  [][/\ (browserTargets'[selfTargetId] = "attached"
         /\ browserTargets[selfTargetId] # "attached")
        => selfTargetId \in DOMAIN unsupported' \ DOMAIN unsupported
     /\ \A t \in DOMAIN unsupported' \ DOMAIN unsupported :
          /\ unsupported'[t].sent =
               <<SessionCommand("Runtime.runIfWaitingForDebugger",
                                SessionOf(t))>>
          /\ unsupported'[t].replies = << >>
          /\ unsupported'[t].parent \in listeners
          /\ contexts' = contexts
          /\ cdpTargets' = cdpTargets
          /\ listeners' = listeners
     /\ \A t \in DOMAIN unsupported' : ChainInOrder(unsupported', t)
     /\ \A t \in DOMAIN unsupported :
          /\ t \in DOMAIN unsupported'
          /\ unsupported'[t] # unsupported[t] =>
               /\ contexts' = contexts
               /\ cdpTargets' = cdpTargets
               /\ listeners' = listeners
               /\ responses' = {}
               /\ Len(unsupported'[t].sent) > Len(unsupported[t].sent) =>
                    /\ unsupported[t].replies = << >>
                    /\ unsupported'[t].replies = <<"ok">>]_vars

\* The command of one worker has failed and was logged, that of another
\* has succeeded and Target.detachFromTarget has failed, and the self
\* target is attached.
C38_Witness ==
  /\ selfTargetId \in DOMAIN unsupported
  /\ \E t \in DOMAIN unsupported :
       /\ unsupported[t].replies = <<"error">>
       /\ unsupported[t].logged
  /\ \E t \in DOMAIN unsupported :
       /\ unsupported[t].replies = <<"ok", "error">>
       /\ unsupported[t].parent # BrowserSession
  /\ contexts # << >>
  /\ \A t \in DOMAIN unsupported :
       t \notin DOMAIN contexts /\ t \notin DOMAIN cdpTargets

(***************************************************************************)
(* Part XXI.  browsingContext.create when the reply of Target.createTarget  *)
(* and the Target.attachedToTarget of the new target arrive in either       *)
(* order.  Specification: Spec.                                             *)
(***************************************************************************)
\* C39, as stated: a browsingContext.create whose Target.createTarget has
\* succeeded does not fail with `no such frame` in the turn of the reply,
\* whether or not the Target.attachedToTarget of the new target has been
\* handled before.
C39_CreateIndependentOfAttachOrder ==
  turn = Reply
  => \A r \in responses :
       (r.method = "create" /\ r.context \in PageIds)
       => r.status # NoSuchFrame
====
